---- MODULE Spec2Model ----
(* Runtime environment exposure of next-dynenv: the public filter, the     *)
(* HTML-safe serializer, the injected script and the frozen window store,  *)
(* the isomorphic accessors env / requireEnv / serverOnly and makeEnvPublic.*)
(* Strings are sequences of one-character strings, so that prefix tests,   *)
(* JSON quoting, the four replacements and the decoding of the emitted     *)
(* text are computed character by character.                               *)
EXTENDS Integers, Sequences, FiniteSets, TLC

VARIABLES procEnv, pageEnv, store, context, scripts, ran, render, last, renders, envWrites, escIn, escOut, escDecoded

vars == <<procEnv, pageEnv, store, context, scripts, ran, render, last, renders, envWrites, escIn, escOut, escDecoded>>

mainVars == <<procEnv, pageEnv, store, context, scripts, ran, render, last, renders, envWrites>>

escVars == <<escIn, escOut, escDecoded>>

(* ---------------------------------------------------------------------- *)
(* Bounds                                                                  *)
(* ---------------------------------------------------------------------- *)

\* longest key or value enumerated character by character for the serializer
MaxStrLen == 1

\* number of component renders (PublicEnvScript, PublicEnvProvider, EnvScript)
MaxRenders == 1

\* number of changes of process.env (makeEnvPublic calls and writes of the hosting runtime)
MaxEnvWrites == 1

\* the renders of one page in the specification of the transport alone
MaxPageRenders == 2

(* ---------------------------------------------------------------------- *)
(* Values of the JavaScript runtime                                        *)
(* ---------------------------------------------------------------------- *)

\* the JavaScript value undefined (no string: its one element is no character)
Undef == <<"undefined">>

\* the empty object {} / the empty process.env
EmptyMap == [k \in {} |-> Undef]

\* obj[key] of a plain object: undefined when the property is absent
Get(m, k) == IF k \in DOMAIN m THEN m[k] ELSE Undef

\* a ?? b
Nullish(a, b) == IF a = Undef THEN b ELSE a

\* !value for a string or undefined: undefined and '' are falsy
Falsy(v) == v = Undef \/ v = <<>>

\* obj[key] = value on a plain object
Put(m, k, v) == [x \in (DOMAIN m) \cup {k} |-> IF x = k THEN v ELSE m[x]]

\* all strings over the alphabet A of length at most n
StringsUpTo(A, n) == UNION {[1..i -> A] : i \in 0..n}

\* all objects with at most n properties, keys from K and values from V
MapsOver(K, V, n) == UNION {[D -> V] : D \in {S \in SUBSET K : Cardinality(S) <= n}}

\* an argument or property that was not supplied (undefined)
JSUndefined == [type |-> "undefined"]

\* the value null
JSNull == [type |-> "null"]

\* a boolean
Bool(b) == [type |-> "boolean", value |-> b]

\* a string
Str(s) == [type |-> "string", value |-> s]

\* an array
List(items) == [type |-> "array", items |-> items]

\* an object
Obj(members) == [type |-> "object", members |-> members]

\* a finite number (-1)^neg * mant * 10^exp, NaN, or an infinity
Num(class, neg, mant, exp) == [type |-> "number", class |-> class, neg |-> neg, mant |-> mant, exp |-> exp]

\* NaN
NaN == Num("nan", FALSE, 0, 0)

\* Infinity and -Infinity
Infinity(neg) == Num("inf", neg, 0, 0)

(* ---------------------------------------------------------------------- *)
(* String primitives                                                       *)
(* ---------------------------------------------------------------------- *)

\* the literal 'NEXT_PUBLIC_'
PUBLIC_PREFIX == <<"N", "E", "X", "T", "_", "P", "U", "B", "L", "I", "C", "_">>

\* String.prototype.startsWith
StartsWith(s, p) == Len(s) >= Len(p) /\ SubSeq(s, 1, Len(p)) = p

\* the capital letters and the small letters, in the same order
UpperLetters ==
    <<"A", "B", "C", "D", "E", "F", "G", "H", "I", "J", "K", "L", "M",
      "N", "O", "P", "Q", "R", "S", "T", "U", "V", "W", "X", "Y", "Z">>

LowerLetters ==
    <<"a", "b", "c", "d", "e", "f", "g", "h", "i", "j", "k", "l", "m",
      "n", "o", "p", "q", "r", "s", "t", "u", "v", "w", "x", "y", "z">>

\* toLowerCase of one character
LowerChar(c) ==
    IF \E i \in 1..Len(UpperLetters) : UpperLetters[i] = c
        THEN LowerLetters[CHOOSE i \in 1..Len(UpperLetters) : UpperLetters[i] = c]
    ELSE c

\* String.prototype.toLowerCase
ToLowerCase(s) == [i \in 1..Len(s) |-> LowerChar(s[i])]

\* concatenation of a sequence of strings
RECURSIVE Concat(_)
Concat(ss) == IF ss = <<>> THEN <<>> ELSE Head(ss) \o Concat(Tail(ss))

\* the keys of an object in enumeration order (one fixed order per key set)
RECURSIVE KeysOf(_)
KeysOf(S) == IF S = {} THEN <<>> ELSE LET k == CHOOSE x \in S : TRUE IN <<k>> \o KeysOf(S \ {k})

\* Object.keys(obj)
ObjectKeys(m) == KeysOf(DOMAIN m)

(* ---------------------------------------------------------------------- *)
(* ValueEscaper: JSON.stringify followed by the four replacements          *)
(* ---------------------------------------------------------------------- *)

\* QuoteJSONString of one character: the quote, the backslash and the
\* control characters are escaped, every other character is copied
QuoteChar(c) ==
    CASE c = "\"" -> <<"\\", "\"">>
      [] c = "\\" -> <<"\\", "\\">>
      [] c = "\n" -> <<"\\", "n">>
      [] OTHER -> <<c>>

\* JSON.stringify of a string
QuoteJSONString(s) == <<"\"">> \o Concat([i \in 1..Len(s) |-> QuoteChar(s[i])]) \o <<"\"">>

\* the members of JSON.stringify of an object, properties whose value is
\* undefined being left out
RECURSIVE StringifyMembers(_, _, _)
StringifyMembers(m, ks, first) ==
    IF ks = <<>> THEN <<>>
    ELSE IF m[Head(ks)] = Undef THEN StringifyMembers(m, Tail(ks), first)
    ELSE (IF first THEN <<>> ELSE <<",">>)
         \o QuoteJSONString(Head(ks)) \o <<":">> \o QuoteJSONString(m[Head(ks)])
         \o StringifyMembers(m, Tail(ks), FALSE)

\* JSON.stringify(obj) of an object with string (or undefined) values
JSONStringify(m) == <<"{">> \o StringifyMembers(m, ObjectKeys(m), TRUE) \o <<"}">>

\* text.replace(/c/g, rep) for a one-character pattern
ReplaceAll(text, c, rep) == Concat([i \in 1..Len(text) |-> IF text[i] = c THEN rep ELSE <<text[i]>>])

\* escapeJsonForHtml without the replacement of <
escapeJsonForHtmlNoLt(obj) ==
    ReplaceAll(ReplaceAll(ReplaceAll(JSONStringify(obj),
        ">", <<"\\", "u", "0", "0", "3", "e">>),
        "&", <<"\\", "u", "0", "0", "2", "6">>),
        "'", <<"\\", "u", "0", "0", "2", "7">>)

\* escapeJsonForHtml with & replaced by the escape of the apostrophe
escapeJsonForHtmlWrongAmp(obj) ==
    ReplaceAll(ReplaceAll(ReplaceAll(ReplaceAll(JSONStringify(obj),
        "<", <<"\\", "u", "0", "0", "3", "c">>),
        ">", <<"\\", "u", "0", "0", "3", "e">>),
        "&", <<"\\", "u", "0", "0", "2", "7">>),
        "'", <<"\\", "u", "0", "0", "2", "7">>)

\* escapeJsonForHtml with the backslash of the replacement of < doubled
escapeJsonForHtmlDoubleEscape(obj) ==
    ReplaceAll(ReplaceAll(ReplaceAll(ReplaceAll(JSONStringify(obj),
        "<", <<"\\", "\\", "u", "0", "0", "3", "c">>),
        ">", <<"\\", "u", "0", "0", "3", "e">>),
        "&", <<"\\", "u", "0", "0", "2", "6">>),
        "'", <<"\\", "u", "0", "0", "2", "7">>)

\* escapeJsonForHtml(obj)
escapeJsonForHtml(obj) ==
    ReplaceAll(ReplaceAll(ReplaceAll(ReplaceAll(JSONStringify(obj),
        "<", <<"\\", "u", "0", "0", "3", "c">>),
        ">", <<"\\", "u", "0", "0", "3", "e">>),
        "&", <<"\\", "u", "0", "0", "2", "6">>),
        "'", <<"\\", "u", "0", "0", "2", "7">>)

(* ---------------------------------------------------------------------- *)
(* Reading the emitted object literal back (JSON.parse / script execution) *)
(* ---------------------------------------------------------------------- *)

\* the result of a parse that failed (a SyntaxError)
ParseError == [ok |-> FALSE, value |-> EmptyMap]

\* the result of a parse that succeeded
Parsed(m) == [ok |-> TRUE, value |-> m]

\* no character
NoChar == ""

\* the character denoted by the four hex digits of a \uXXXX escape
UnicodeEscape(h) ==
    CASE h = <<"0", "0", "3", "c">> -> "<"
      [] h = <<"0", "0", "3", "e">> -> ">"
      [] h = <<"0", "0", "2", "6">> -> "&"
      [] h = <<"0", "0", "2", "7">> -> "'"
      [] h = <<"0", "0", "2", "2">> -> "\""
      [] h = <<"0", "0", "5", "c">> -> "\\"
      [] OTHER -> NoChar

\* reads a string literal whose opening quote is at position i - 1
RECURSIVE ReadString(_, _, _)
ReadString(t, i, acc) ==
    IF i > Len(t) THEN [ok |-> FALSE]
    ELSE IF t[i] = "\"" THEN [ok |-> TRUE, val |-> acc, next |-> i + 1]
    ELSE IF t[i] = "\\" THEN
        IF i + 1 > Len(t) THEN [ok |-> FALSE]
        ELSE IF t[i + 1] = "\"" THEN ReadString(t, i + 2, Append(acc, "\""))
        ELSE IF t[i + 1] = "\\" THEN ReadString(t, i + 2, Append(acc, "\\"))
        ELSE IF t[i + 1] = "n" THEN ReadString(t, i + 2, Append(acc, "\n"))
        ELSE IF t[i + 1] = "u" /\ i + 5 <= Len(t) /\ UnicodeEscape(SubSeq(t, i + 2, i + 5)) # NoChar
            THEN ReadString(t, i + 6, Append(acc, UnicodeEscape(SubSeq(t, i + 2, i + 5))))
        ELSE [ok |-> FALSE]
    ELSE IF t[i] = "\n" THEN [ok |-> FALSE]
    ELSE ReadString(t, i + 1, Append(acc, t[i]))

\* reads the members of an object literal from position i on
RECURSIVE ReadMembers(_, _, _)
ReadMembers(t, i, acc) ==
    IF i > Len(t) \/ t[i] # "\"" THEN ParseError
    ELSE LET k == ReadString(t, i + 1, <<>>) IN
        IF ~k.ok \/ k.next + 1 > Len(t) \/ t[k.next] # ":" \/ t[k.next + 1] # "\"" THEN ParseError
        ELSE LET v == ReadString(t, k.next + 2, <<>>) IN
            IF ~v.ok \/ v.next > Len(t) THEN ParseError
            ELSE IF t[v.next] = "}" THEN
                (IF v.next = Len(t) THEN Parsed(Put(acc, k.val, v.val)) ELSE ParseError)
            ELSE IF t[v.next] = "," THEN ReadMembers(t, v.next + 1, Put(acc, k.val, v.val))
            ELSE ParseError

\* JSON.parse(text) of the text of an object with string values
JSONParse(t) ==
    IF Len(t) < 2 \/ t[1] # "{" THEN ParseError
    ELSE IF t[2] = "}" THEN (IF Len(t) = 2 THEN Parsed(EmptyMap) ELSE ParseError)
    ELSE ReadMembers(t, 2, EmptyMap)

(* ---------------------------------------------------------------------- *)
(* Keys, values and inputs of the model                                    *)
(* ---------------------------------------------------------------------- *)

\* 'NEXT_PUBLIC_' + key
Prefixed(key) == PUBLIC_PREFIX \o key

\* the keys F (not public) and next_public_F (public but for the case)
kF == <<"F">>

kLower == ToLowerCase(PUBLIC_PREFIX) \o <<"F">>

\* the values a variable is set to: '', 'b' and one with markup characters
EnvVals == {<<>>, <<"b">>, <<"<", "'">>}

\* the keys set when the process starts
InitKeys == {kF, Prefixed(kF), kLower}

\* the keys the accessors are called with
CallKeys == {kF, Prefixed(kF), kLower}

\* the default / fallback arguments: none and 'D'
Defaults == {Undef, <<"D">>}

\* the two execution contexts: the server process and the page
Contexts == {"server", "page"}

(* ---------------------------------------------------------------------- *)
(* PublicFilter                                                            *)
(* ---------------------------------------------------------------------- *)

\* getPublicEnv() with a filter that ignores the case of the prefix
getPublicEnvIgnoreCase(E) ==
    [k \in {x \in DOMAIN E : StartsWith(ToLowerCase(x), ToLowerCase(PUBLIC_PREFIX))} |-> E[k]]

\* getPublicEnv(): the entries of process.env whose key starts with NEXT_PUBLIC_
getPublicEnv(E) == [k \in {x \in DOMAIN E : StartsWith(x, PUBLIC_PREFIX)} |-> E[k]]

(* ---------------------------------------------------------------------- *)
(* Resolver: isBrowser, env, requireEnv, serverOnly                        *)
(* ---------------------------------------------------------------------- *)

\* window.__ENV before any script ran
NoStore == [set |-> FALSE, frozen |-> FALSE, props |-> EmptyMap]

\* a call that returned v
Return(v) == [kind |-> "return", val |-> v, err |-> "none", key |-> <<>>]

\* a call that threw an Error of the given kind whose message names key
Throw(e, key) == [kind |-> "throw", val |-> Undef, err |-> e, key |-> key]

\* typeof window !== 'undefined' in the given context
HasWindow(ctx) == ctx = "page"

\* process.env as the code of the given context sees it
ProcessEnv(ctx, pe, ge) == IF ctx = "server" THEN pe ELSE ge

\* isBrowser(): a window with a truthy window.__ENV (every object is truthy)
isBrowser(ctx, st) == HasWindow(ctx) /\ st.set

\* IS_BROWSER, evaluated when the module is loaded in the context
IS_BROWSER(ctx) == HasWindow(ctx)

\* env with a gate that ignores the case of the prefix
envGateIgnoreCase(ctx, st, pe, ge, key, d) ==
    IF isBrowser(ctx, st) THEN
        IF ~StartsWith(ToLowerCase(key), ToLowerCase(PUBLIC_PREFIX)) THEN Throw("AccessDenied", key)
        ELSE Return(Nullish(Get(st.props, key), d))
    ELSE Return(Nullish(Get(ProcessEnv(ctx, pe, ge), key), d))

\* env with || in place of ??: every falsy value gives way to the default
envFalsyDefault(ctx, st, pe, ge, key, d) ==
    IF isBrowser(ctx, st) THEN
        IF ~StartsWith(key, PUBLIC_PREFIX) THEN Throw("AccessDenied", key)
        ELSE Return(IF Falsy(Get(st.props, key)) THEN d ELSE Get(st.props, key))
    ELSE Return(IF Falsy(Get(ProcessEnv(ctx, pe, ge), key)) THEN d ELSE Get(ProcessEnv(ctx, pe, ge), key))

\* env with the visibility gate applied in every context
envGateOnServer(ctx, st, pe, ge, key, d) ==
    IF ~StartsWith(key, PUBLIC_PREFIX) THEN Throw("AccessDenied", key)
    ELSE IF isBrowser(ctx, st) THEN Return(Nullish(Get(st.props, key), d))
    ELSE Return(Nullish(Get(ProcessEnv(ctx, pe, ge), key), d))

\* env that falls back to process.env in the browser before the default
envProcessEnvFallback(ctx, st, pe, ge, key, d) ==
    IF isBrowser(ctx, st) THEN
        IF ~StartsWith(key, PUBLIC_PREFIX) THEN Throw("AccessDenied", key)
        ELSE Return(Nullish(Get(st.props, key), Nullish(Get(ProcessEnv(ctx, pe, ge), key), d)))
    ELSE Return(Nullish(Get(ProcessEnv(ctx, pe, ge), key), d))

\* env on the server answering from the entries serialized at the last
\* render (a cached public map) before reading process.env
envCachedAtRender(ctx, st, pe, ge, key, d) ==
    IF isBrowser(ctx, st) THEN
        IF ~StartsWith(key, PUBLIC_PREFIX) THEN Throw("AccessDenied", key)
        ELSE Return(Nullish(Get(st.props, key), d))
    ELSE Return(Nullish(IF key \in DOMAIN st.props THEN st.props[key]
                        ELSE Get(ProcessEnv(ctx, pe, ge), key), d))

\* env(key, defaultValue)
env(ctx, st, pe, ge, key, d) ==
    IF isBrowser(ctx, st) THEN
        IF ~StartsWith(key, PUBLIC_PREFIX) THEN Throw("AccessDenied", key)
        ELSE Return(Nullish(Get(st.props, key), d))
    ELSE Return(Nullish(Get(ProcessEnv(ctx, pe, ge), key), d))

\* requireEnv(key)
requireEnv(ctx, st, pe, ge, key) ==
    LET value == env(ctx, st, pe, ge, key, Undef) IN
    IF value.kind = "throw" THEN value
    ELSE IF value.val = Undef THEN Throw("MissingRequired", key)
    ELSE Return(value.val)

\* serverOnly without the IS_BROWSER branch
serverOnlyReadsInBrowser(ctx, st, pe, ge, key, fallback) ==
    Return(Nullish(Get(ProcessEnv(ctx, pe, ge), key), fallback))

\* serverOnly(key, fallback)
serverOnly(ctx, st, pe, ge, key, fallback) ==
    IF IS_BROWSER(ctx) THEN Return(fallback)
    ELSE Return(Nullish(Get(ProcessEnv(ctx, pe, ge), key), fallback))

(* ---------------------------------------------------------------------- *)
(* PublicPromoter: prefixKey and makeEnvPublic                             *)
(* ---------------------------------------------------------------------- *)

\* one diagnostic of helpers/log: warn(...) or event(...)
Diag(level, what, key) == [level |-> level, what |-> what, key |-> key]

\* /^NEXT_PUBLIC_/i.test(key)
AlreadyPublicRegex(key) == StartsWith(ToLowerCase(key), ToLowerCase(PUBLIC_PREFIX))

\* prefixKey that leaves an entry that exists under the prefixed key alone
prefixKeyKeepsExisting(st, key) ==
    IF Falsy(Get(st.env, key)) THEN
        [env |-> st.env, log |-> Append(st.log, Diag("warn", "skipped", key))]
    ELSE
        [env |-> IF Prefixed(key) \in DOMAIN st.env THEN st.env
                 ELSE Put(st.env, Prefixed(key), st.env[key]),
         log |-> st.log
                 \o (IF AlreadyPublicRegex(key) THEN <<Diag("warn", "already public", key)>> ELSE <<>>)
                 \o <<Diag("event", "prefixed", key)>>]

\* prefixKey(key): the environment and the diagnostics after the call
\* (st holds both; the call appends to the diagnostics)
prefixKey(st, key) ==
    IF Falsy(Get(st.env, key)) THEN
        [env |-> st.env, log |-> Append(st.log, Diag("warn", "skipped", key))]
    ELSE
        [env |-> Put(st.env, Prefixed(key), st.env[key]),
         log |-> st.log
                 \o (IF AlreadyPublicRegex(key) THEN <<Diag("warn", "already public", key)>> ELSE <<>>)
                 \o <<Diag("event", "prefixed", key)>>]

\* key.forEach((value) => prefixKey(value, options))
RECURSIVE forEachPrefixKey(_, _)
forEachPrefixKey(st, keys) ==
    IF keys = <<>> THEN st ELSE forEachPrefixKey(prefixKey(st, Head(keys)), Tail(keys))

\* makeEnvPublic that gives up the rest of an array at the first key that
\* is not in process.env
makeEnvPublicStopsAtAbsent(E, input) ==
    IF input.type = "string" THEN prefixKey([env |-> E, log |-> <<>>], input.value)
    ELSE LET absent == {i \in 1..Len(input.value) : Falsy(Get(E, input.value[i]))}
             n == IF absent = {} THEN Len(input.value) ELSE CHOOSE i \in absent : \A j \in absent : i <= j
         IN forEachPrefixKey([env |-> E, log |-> <<>>], SubSeq(input.value, 1, n))

\* makeEnvPublic(key): key is a string or an array of strings
makeEnvPublic(E, input) ==
    IF input.type = "string" THEN prefixKey([env |-> E, log |-> <<>>], input.value)
    ELSE forEachPrefixKey([env |-> E, log |-> <<>>], input.value)

\* the arguments makeEnvPublic is called with
PromoteInputs ==
    {[type |-> "string", value |-> kF],
     [type |-> "string", value |-> Prefixed(kF)],
     [type |-> "array", value |-> <<<<"M">>, Prefixed(kF), kF>>]}

(* ---------------------------------------------------------------------- *)
(* TypedParsers: the primitives of the JavaScript runtime they use         *)
(* ---------------------------------------------------------------------- *)

\* a call that threw an Error of the given kind whose message names key,
\* embeds the raw value and lists the expected values
Fail(e, key, raw, expected) ==
    [kind |-> "throw", val |-> Undef, err |-> e, key |-> key, raw |-> raw, expected |-> expected]

\* Array.prototype.includes
Includes(arr, v) == \E i \in 1..Len(arr) : arr[i] = v

\* the white space String.prototype.trim, StringToNumber and JSON.parse skip
WhiteSpace == {" ", "\t", "\n", "\r"}

\* String.prototype.trimStart
RECURSIVE TrimStart(_)
TrimStart(s) == IF s # <<>> /\ Head(s) \in WhiteSpace THEN TrimStart(Tail(s)) ELSE s

\* String.prototype.trimEnd
RECURSIVE TrimEnd(_)
TrimEnd(s) == IF s # <<>> /\ s[Len(s)] \in WhiteSpace THEN TrimEnd(SubSeq(s, 1, Len(s) - 1)) ELSE s

\* String.prototype.trim
Trim(s) == TrimEnd(TrimStart(s))

\* the rest of a split: cur is the segment being read
RECURSIVE SplitFrom(_, _, _)
SplitFrom(s, sep, cur) ==
    IF s = <<>> THEN <<cur>>
    ELSE IF Head(s) = sep THEN <<cur>> \o SplitFrom(Tail(s), sep, <<>>)
    ELSE SplitFrom(Tail(s), sep, Append(cur, Head(s)))

\* String.prototype.split with a one-character separator
Split(s, sep) == SplitFrom(s, sep, <<>>)

\* the digits of the bases 2 to 16, in order of value
HexDigits == <<"0", "1", "2", "3", "4", "5", "6", "7", "8", "9", "a", "b", "c", "d", "e", "f">>

\* c is a digit of the given base
IsDigit(c, base) == \E i \in 1..base : HexDigits[i] = LowerChar(c)

\* the value of the digit c
DigitValue(c) == (CHOOSE i \in 1..Len(HexDigits) : HexDigits[i] = LowerChar(c)) - 1

\* the number of consecutive digits of t from position i on
RECURSIVE DigitRun(_, _, _)
DigitRun(t, i, base) == IF i <= Len(t) /\ IsDigit(t[i], base) THEN 1 + DigitRun(t, i + 1, base) ELSE 0

\* the mathematical value of a digit string
RECURSIVE DigitsValue(_, _)
DigitsValue(ds, base) ==
    IF ds = <<>> THEN 0 ELSE DigitsValue(SubSeq(ds, 1, Len(ds) - 1), base) * base + DigitValue(ds[Len(ds)])

\* 10^n
RECURSIVE Pow10(_)
Pow10(n) == IF n = 0 THEN 1 ELSE 10 * Pow10(n - 1)

\* the number of decimal digits of n > 0
RECURSIVE NumDigits(_)
NumDigits(n) == IF n < 10 THEN 1 ELSE 1 + NumDigits(n \div 10)

\* mant * 10^exp with the trailing zeros of mant moved into exp
RECURSIVE Normalize(_, _)
Normalize(mant, exp) ==
    IF mant = 0 THEN [mant |-> 0, exp |-> 0]
    ELSE IF mant % 10 = 0 THEN Normalize(mant \div 10, exp + 1)
    ELSE [mant |-> mant, exp |-> exp]

\* the four leading decimal digits of mant > 0
Lead4(mant) ==
    IF NumDigits(mant) <= 4 THEN mant * Pow10(4 - NumDigits(mant))
    ELSE mant \div Pow10(NumDigits(mant) - 4)

\* the double nearest to (-1)^neg * mant * 10^exp: Infinity when the
\* magnitude exceeds the largest double 1.797...e308 (decided on the four
\* leading digits), zero when it is below the smallest 4.9e-324
RoundToDouble(neg, mant, exp) ==
    LET n == Normalize(mant, exp)
        e10 == NumDigits(n.mant) + n.exp
    IN  IF n.mant = 0 THEN Num("finite", neg, 0, 0)
        ELSE IF e10 > 309 \/ (e10 = 309 /\ Lead4(n.mant) >= 1798) THEN Infinity(neg)
        ELSE IF e10 < -323 THEN Num("finite", neg, 0, 0)
        ELSE Num("finite", neg, n.mant, n.exp)

\* StrUnsignedDecimalLiteral: Infinity, or digits with an optional fraction
\* and an optional exponent part; anything else is NaN
StrUnsignedDecimalLiteral(t, neg) ==
    LET nInt  == DigitRun(t, 1, 10)
        dot   == nInt + 1 <= Len(t) /\ t[nInt + 1] = "."
        nFrac == IF dot THEN DigitRun(t, nInt + 2, 10) ELSE 0
        e     == nInt + (IF dot THEN 1 ELSE 0) + nFrac + 1
        hasE  == e <= Len(t) /\ LowerChar(t[e]) = "e"
        eSign == hasE /\ e + 1 <= Len(t) /\ t[e + 1] \in {"+", "-"}
        eFrom == e + (IF eSign THEN 2 ELSE 1)
        nExp  == IF hasE THEN DigitRun(t, eFrom, 10) ELSE 0
        end   == IF hasE THEN eFrom + nExp - 1 ELSE e - 1
        expo  == IF hasE THEN DigitsValue(SubSeq(t, eFrom, eFrom + nExp - 1), 10) ELSE 0
        mant  == DigitsValue(SubSeq(t, 1, nInt) \o SubSeq(t, nInt + 2, nInt + 1 + nFrac), 10)
    IN  IF t = <<"I", "n", "f", "i", "n", "i", "t", "y">> THEN Infinity(neg)
        ELSE IF nInt + nFrac = 0 \/ (hasE /\ nExp = 0) \/ end # Len(t) THEN NaN
        ELSE RoundToDouble(neg, mant, (IF eSign /\ t[e + 1] = "-" THEN 0 - expo ELSE expo) - nFrac)

\* NonDecimalIntegerLiteral: 0x, 0o or 0b followed by digits of that base
NonDecimalIntegerLiteral(t) ==
    LET base == CASE LowerChar(t[2]) = "x" -> 16 [] LowerChar(t[2]) = "o" -> 8 [] OTHER -> 2 IN
    IF Len(t) >= 3 /\ DigitRun(t, 3, base) = Len(t) - 2
        THEN RoundToDouble(FALSE, DigitsValue(SubSeq(t, 3, Len(t)), base), 0)
    ELSE NaN

\* Number(value) of a string (StringToNumber)
Number(value) ==
    LET t == Trim(value) IN
    IF t = <<>> THEN Num("finite", FALSE, 0, 0)
    ELSE IF Len(t) >= 2 /\ t[1] = "0" /\ LowerChar(t[2]) \in {"x", "o", "b"} THEN NonDecimalIntegerLiteral(t)
    ELSE IF t[1] = "-" THEN StrUnsignedDecimalLiteral(Tail(t), TRUE)
    ELSE IF t[1] = "+" THEN StrUnsignedDecimalLiteral(Tail(t), FALSE)
    ELSE StrUnsignedDecimalLiteral(t, FALSE)

\* Number.isNaN
NumberIsNaN(n) == n.class = "nan"

\* Number.isFinite
NumberIsFinite(n) == n.class = "finite"

\* a JSON parse that failed
JSONFail == [ok |-> FALSE, val |-> JSNull, next |-> 0]

\* a JSON value read up to position next - 1
JSONRead(v, next) == [ok |-> TRUE, val |-> v, next |-> next]

\* the position of the first character from i on that is no white space
RECURSIVE SkipWS(_, _)
SkipWS(t, i) == IF i <= Len(t) /\ t[i] \in WhiteSpace THEN SkipWS(t, i + 1) ELSE i

\* t has the literal lit at position i
HasLiteral(t, i, lit) == i + Len(lit) - 1 <= Len(t) /\ SubSeq(t, i, i + Len(lit) - 1) = lit

\* a JSON number at position i: -? (0 | [1-9] digits) (. digits)? ([eE] [+-]? digits)?
JSONNumber(t, i) ==
    LET j     == IF t[i] = "-" THEN i + 1 ELSE i
        nInt  == DigitRun(t, j, 10)
        k     == j + nInt
        dot   == k <= Len(t) /\ t[k] = "."
        nFrac == IF dot THEN DigitRun(t, k + 1, 10) ELSE 0
        e     == IF dot THEN k + 1 + nFrac ELSE k
        hasE  == e <= Len(t) /\ LowerChar(t[e]) = "e"
        eSign == hasE /\ e + 1 <= Len(t) /\ t[e + 1] \in {"+", "-"}
        eFrom == e + (IF eSign THEN 2 ELSE 1)
        nExp  == IF hasE THEN DigitRun(t, eFrom, 10) ELSE 0
        end   == IF hasE THEN eFrom + nExp ELSE e
    IN  IF nInt = 0 \/ (nInt > 1 /\ t[j] = "0") \/ (dot /\ nFrac = 0) \/ (hasE /\ nExp = 0) THEN JSONFail
        ELSE JSONRead(Number(SubSeq(t, i, end - 1)), end)

\* a JSON value at position i, the elements of an array and the members of
\* an object from position i on
RECURSIVE JSONValue(_, _), JSONElements(_, _, _), JSONMembers(_, _, _)
JSONValue(t, i) ==
    IF i > Len(t) THEN JSONFail
    ELSE IF HasLiteral(t, i, <<"t", "r", "u", "e">>) THEN JSONRead(Bool(TRUE), i + 4)
    ELSE IF HasLiteral(t, i, <<"f", "a", "l", "s", "e">>) THEN JSONRead(Bool(FALSE), i + 5)
    ELSE IF HasLiteral(t, i, <<"n", "u", "l", "l">>) THEN JSONRead(JSNull, i + 4)
    ELSE IF t[i] = "\"" THEN
        LET s == ReadString(t, i + 1, <<>>) IN
        IF s.ok THEN JSONRead(Str(s.val), s.next) ELSE JSONFail
    ELSE IF t[i] = "[" THEN
        LET j == SkipWS(t, i + 1) IN
        IF j <= Len(t) /\ t[j] = "]" THEN JSONRead(List(<<>>), j + 1) ELSE JSONElements(t, j, <<>>)
    ELSE IF t[i] = "{" THEN
        LET j == SkipWS(t, i + 1) IN
        IF j <= Len(t) /\ t[j] = "}" THEN JSONRead(Obj(EmptyMap), j + 1) ELSE JSONMembers(t, j, EmptyMap)
    ELSE IF t[i] = "-" \/ IsDigit(t[i], 10) THEN JSONNumber(t, i)
    ELSE JSONFail

JSONElements(t, i, acc) ==
    LET v == JSONValue(t, i) IN
    IF ~v.ok THEN JSONFail
    ELSE LET j == SkipWS(t, v.next) IN
        IF j > Len(t) THEN JSONFail
        ELSE IF t[j] = "]" THEN JSONRead(List(Append(acc, v.val)), j + 1)
        ELSE IF t[j] = "," THEN JSONElements(t, SkipWS(t, j + 1), Append(acc, v.val))
        ELSE JSONFail

JSONMembers(t, i, acc) ==
    IF i > Len(t) \/ t[i] # "\"" THEN JSONFail
    ELSE LET k == ReadString(t, i + 1, <<>>) IN
        IF ~k.ok THEN JSONFail
        ELSE LET c == SkipWS(t, k.next) IN
            IF c > Len(t) \/ t[c] # ":" THEN JSONFail
            ELSE LET v == JSONValue(t, SkipWS(t, c + 1)) IN
                IF ~v.ok THEN JSONFail
                ELSE LET j == SkipWS(t, v.next) IN
                    IF j > Len(t) THEN JSONFail
                    ELSE IF t[j] = "}" THEN JSONRead(Obj(Put(acc, k.val, v.val)), j + 1)
                    ELSE IF t[j] = "," THEN JSONMembers(t, SkipWS(t, j + 1), Put(acc, k.val, v.val))
                    ELSE JSONFail

\* JSON.parse(value) of any JSON text: one value between optional white space
JSONParseValue(t) ==
    LET v == JSONValue(t, SkipWS(t, 1)) IN
    IF v.ok /\ SkipWS(t, v.next) = Len(t) + 1 THEN v ELSE JSONFail

\* the schemes whose URLs need a host
SpecialSchemes == {<<"h", "t", "t", "p">>, <<"h", "t", "t", "p", "s">>, <<"w", "s">>, <<"w", "s", "s">>, <<"f", "t", "p">>}

\* c is an ASCII letter
IsAlpha(c) ==
    LowerChar(c) \in {"a", "b", "c", "d", "e", "f", "g", "h", "i", "j", "k", "l", "m",
                      "n", "o", "p", "q", "r", "s", "t", "u", "v", "w", "x", "y", "z"}

\* the number of scheme characters of t from position i on
RECURSIVE SchemeRun(_, _)
SchemeRun(t, i) ==
    IF i <= Len(t) /\ (IsAlpha(t[i]) \/ IsDigit(t[i], 10) \/ t[i] \in {"+", "-", "."})
        THEN 1 + SchemeRun(t, i + 1)
    ELSE 0

\* the number of slashes and backslashes of t from position i on
RECURSIVE SlashRun(_, _)
SlashRun(t, i) == IF i <= Len(t) /\ t[i] \in {"/", "\\"} THEN 1 + SlashRun(t, i + 1) ELSE 0

\* the number of characters of t from position i on before the path, the
\* query or the fragment begins
RECURSIVE AuthorityRun(_, _)
AuthorityRun(t, i) == IF i <= Len(t) /\ t[i] \notin {"/", "\\", "?", "#"} THEN 1 + AuthorityRun(t, i + 1) ELSE 0

\* the characters a host may not contain
ForbiddenHostCodePoints == {" ", "\t", "\n", "\r", "#", "/", "<", ">", "?", "@", "[", "\\", "]", "^", "|", "%"}

\* the position of the last c in t, 0 if there is none
RECURSIVE LastIndexOf(_, _)
LastIndexOf(t, c) == IF t = <<>> THEN 0 ELSE IF t[Len(t)] = c THEN Len(t) ELSE LastIndexOf(SubSeq(t, 1, Len(t) - 1), c)

\* the position of the first c in t, Len(t) + 1 if there is none
RECURSIVE IndexOf(_, _, _)
IndexOf(t, c, i) == IF i > Len(t) \/ t[i] = c THEN i ELSE IndexOf(t, c, i + 1)

\* the authority (credentials, host, port) parses; a domain or opaque host
\* without brackets, which may be empty only if emptyHost
AuthorityParses(a, emptyHost) ==
    LET hp   == SubSeq(a, LastIndexOf(a, "@") + 1, Len(a))
        c    == IndexOf(hp, ":", 1)
        host == SubSeq(hp, 1, c - 1)
        port == SubSeq(hp, c + 1, Len(hp))
    IN  /\ emptyHost \/ host # <<>>
        /\ \A i \in 1..Len(host) : host[i] \notin ForbiddenHostCodePoints
        /\ DigitRun(port, 1, 10) = Len(port)
        /\ Len(port) <= 5
        /\ DigitsValue(port, 10) <= 65535

\* new URL(value) returns (TRUE) or throws a TypeError (FALSE): an absolute
\* URL has a scheme, and a special scheme other than file needs a host
URLParses(value) ==
    LET t == Trim(value)
        n == SchemeRun(t, 1)
        scheme == ToLowerCase(SubSeq(t, 1, n))
        from == n + 2 + SlashRun(t, n + 2)
    IN  IF t = <<>> \/ ~IsAlpha(t[1]) \/ n = Len(t) \/ t[n + 1] # ":" THEN FALSE
        ELSE IF scheme \in SpecialSchemes
            THEN AuthorityParses(SubSeq(t, from, from + AuthorityRun(t, from) - 1), FALSE)
        ELSE IF scheme = <<"f", "i", "l", "e">> THEN TRUE
        ELSE IF HasLiteral(t, n + 2, <<"/", "/">>)
            THEN AuthorityParses(SubSeq(t, n + 4, n + 3 + AuthorityRun(t, n + 4)), TRUE)
        ELSE TRUE

(* ---------------------------------------------------------------------- *)
(* TypedParsers: envParsers                                                *)
(* ---------------------------------------------------------------------- *)

\* ['true', '1', 'yes', 'on']
TruthyTokens == << <<"t", "r", "u", "e">>, <<"1">>, <<"y", "e", "s">>, <<"o", "n">> >>

\* envParsers.boolean with the value compared as it is written
booleanCaseSensitive(ctx, st, pe, ge, key, defaultValue) ==
    LET value == env(ctx, st, pe, ge, key, Undef) IN
    IF value.kind = "throw" THEN value
    ELSE IF value.val = Undef
        THEN Return(IF defaultValue.type = "undefined" THEN Bool(FALSE) ELSE defaultValue)
    ELSE Return(Bool(Includes(TruthyTokens, value.val)))

\* envParsers.boolean(key, defaultValue = false)
boolean(ctx, st, pe, ge, key, defaultValue) ==
    LET value == env(ctx, st, pe, ge, key, Undef) IN
    IF value.kind = "throw" THEN value
    ELSE IF value.val = Undef
        THEN Return(IF defaultValue.type = "undefined" THEN Bool(FALSE) ELSE defaultValue)
    ELSE Return(Bool(Includes(TruthyTokens, ToLowerCase(value.val))))

\* envParsers.number(key, defaultValue = 0)
number(ctx, st, pe, ge, key, defaultValue) ==
    LET value == env(ctx, st, pe, ge, key, Undef) IN
    IF value.kind = "throw" THEN value
    ELSE IF value.val = Undef
        THEN Return(IF defaultValue.type = "undefined" THEN Num("finite", FALSE, 0, 0) ELSE defaultValue)
    ELSE LET parsed == Number(value.val) IN
        IF NumberIsNaN(parsed) THEN Fail("NotANumber", key, value.val, <<>>)
        ELSE Return(parsed)

\* envParsers.array reading the value with requireEnv
arrayViaRequireEnv(ctx, st, pe, ge, key, defaultValue) ==
    LET value == requireEnv(ctx, st, pe, ge, key) IN
    IF value.kind = "throw" THEN value
    ELSE LET parts == Split(value.val, ",") IN
        Return(List(SelectSeq([i \in 1..Len(parts) |-> Trim(parts[i])], LAMBDA s : s # <<>>)))

\* envParsers.array without the filter of empty segments
arrayKeepEmpty(ctx, st, pe, ge, key, defaultValue) ==
    LET value == env(ctx, st, pe, ge, key, Undef) IN
    IF value.kind = "throw" THEN value
    ELSE IF value.val = Undef
        THEN Return(IF defaultValue.type = "undefined" THEN List(<<>>) ELSE defaultValue)
    ELSE LET parts == Split(value.val, ",") IN
        Return(List([i \in 1..Len(parts) |-> Trim(parts[i])]))

\* envParsers.array(key, defaultValue = [])
array(ctx, st, pe, ge, key, defaultValue) ==
    LET value == env(ctx, st, pe, ge, key, Undef) IN
    IF value.kind = "throw" THEN value
    ELSE IF value.val = Undef
        THEN Return(IF defaultValue.type = "undefined" THEN List(<<>>) ELSE defaultValue)
    ELSE LET parts == Split(value.val, ",") IN
        Return(List(SelectSeq([i \in 1..Len(parts) |-> Trim(parts[i])], LAMBDA s : s # <<>>)))

\* envParsers.json with the default substituted when env(key) throws
jsonDefaultOnError(ctx, st, pe, ge, key, defaultValue) ==
    LET value == env(ctx, st, pe, ge, key, Undef) IN
    IF value.kind = "throw" /\ defaultValue.type = "undefined" THEN value
    ELSE IF value.kind = "throw" \/ value.val = Undef THEN
        IF defaultValue.type = "undefined" THEN Fail("MissingRequired", key, Undef, <<>>)
        ELSE Return(defaultValue)
    ELSE LET parsed == JSONParseValue(value.val) IN
        IF parsed.ok THEN Return(parsed.val) ELSE Fail("InvalidJson", key, value.val, <<>>)

\* envParsers.json(key, defaultValue)
json(ctx, st, pe, ge, key, defaultValue) ==
    LET value == env(ctx, st, pe, ge, key, Undef) IN
    IF value.kind = "throw" THEN value
    ELSE IF value.val = Undef THEN
        IF defaultValue.type = "undefined" THEN Fail("MissingRequired", key, Undef, <<>>)
        ELSE Return(defaultValue)
    ELSE LET parsed == JSONParseValue(value.val) IN
        IF parsed.ok THEN Return(parsed.val) ELSE Fail("InvalidJson", key, value.val, <<>>)

\* envParsers.url with the default validated like a value
urlValidatesDefault(ctx, st, pe, ge, key, defaultValue) ==
    LET value == env(ctx, st, pe, ge, key, Undef) IN
    IF value.kind = "throw" THEN value
    ELSE IF value.val = Undef THEN
        IF defaultValue.type = "undefined" THEN Fail("MissingRequired", key, Undef, <<>>)
        ELSE IF URLParses(defaultValue.value) THEN Return(defaultValue)
        ELSE Fail("InvalidUrl", key, defaultValue.value, <<>>)
    ELSE IF URLParses(value.val) THEN Return(Str(value.val))
    ELSE Fail("InvalidUrl", key, value.val, <<>>)

\* envParsers.url(key, defaultValue)
url(ctx, st, pe, ge, key, defaultValue) ==
    LET value == env(ctx, st, pe, ge, key, Undef) IN
    IF value.kind = "throw" THEN value
    ELSE IF value.val = Undef THEN
        IF defaultValue.type = "undefined" THEN Fail("MissingRequired", key, Undef, <<>>)
        ELSE Return(defaultValue)
    ELSE IF URLParses(value.val) THEN Return(Str(value.val))
    ELSE Fail("InvalidUrl", key, value.val, <<>>)

\* envParsers.enum without the test of the value
enumUnchecked(ctx, st, pe, ge, key, allowedValues, defaultValue) ==
    LET value == env(ctx, st, pe, ge, key, Undef) IN
    IF value.kind = "throw" THEN value
    ELSE IF value.val = Undef THEN
        IF defaultValue.type = "undefined" THEN Fail("MissingRequired", key, Undef, allowedValues)
        ELSE Return(defaultValue)
    ELSE Return(Str(value.val))

\* envParsers.enum(key, allowedValues, defaultValue)
enum(ctx, st, pe, ge, key, allowedValues, defaultValue) ==
    LET value == env(ctx, st, pe, ge, key, Undef) IN
    IF value.kind = "throw" THEN value
    ELSE IF value.val = Undef THEN
        IF defaultValue.type = "undefined" THEN Fail("MissingRequired", key, Undef, allowedValues)
        ELSE Return(defaultValue)
    ELSE IF ~Includes(allowedValues, value.val) THEN Fail("InvalidEnumValue", key, value.val, allowedValues)
    ELSE Return(Str(value.val))

(* ---------------------------------------------------------------------- *)
(* Transport: EnvScript, PublicEnvScript, PublicEnvProvider                *)
(* ---------------------------------------------------------------------- *)

\* no render in progress
Idle == [pc |-> "idle", kind |-> "none", env |-> EmptyMap, nonce |-> JSUndefined, src |-> EmptyMap,
         lookup |-> [kind |-> "none"]]

\* the nonce property the components are rendered with: a literal string
NonceInputs == {Str(<<"n">>)}

\* the env property EnvScript is given by callers other than PublicEnvScript
CustomEnvs == {Put(Put(EmptyMap, kF, <<"b">>), Prefixed(kF), Undef)}

\* a nonce property { headerKey }
HeaderKey(k) == [type |-> "object", headerKey |-> k]

\* String.prototype.includes
StringIncludes(s, sub) == \E i \in 0..(Len(s) - Len(sub)) : SubSeq(s, i + 1, i + Len(sub)) = sub

\* 'outside a request scope'
OutsideRequestScope ==
    <<"o", "u", "t", "s", "i", "d", "e", " ", "a", " ", "r", "e", "q", "u", "e", "s", "t", " ",
      "s", "c", "o", "p", "e">>

\* 'was called outside a request scope'
WasCalledOutsideRequestScope ==
    <<"w", "a", "s", " ", "c", "a", "l", "l", "e", "d", " ", "o", "u", "t", "s", "i", "d", "e",
      " ", "a", " ", "r", "e", "q", "u", "e", "s", "t", " ", "s", "c", "o", "p", "e">>

\* 'Dynamic server usage'
DynamicServerUsage ==
    <<"D", "y", "n", "a", "m", "i", "c", " ", "s", "e", "r", "v", "e", "r", " ", "u", "s", "a",
      "g", "e">>

\* headers() resolved to a value; hasGet: it is an object with a get method
HeadersResolved(hasGet, h) == [kind |-> "resolved", hasGet |-> hasGet, headers |-> h]

\* headers() threw: an Error with the message, or a value that is no Error
Thrown(isError, message) == [kind |-> "throw", isError |-> isError, message |-> message]

\* headerStore.get(name) ?? undefined: header names are matched in lower case
HeadersGet(h, name) == Get(h, ToLowerCase(name))

\* isOutsideRequestScope that holds for every Error, whatever its message
isOutsideRequestScopeAnyError(error) == error.isError

\* isOutsideRequestScope of the catch block of EnvScript
isOutsideRequestScope(error) ==
    /\ error.isError
    /\ \/ StringIncludes(error.message, OutsideRequestScope)
       \/ StringIncludes(error.message, WasCalledOutsideRequestScope)
       \/ StringIncludes(error.message, DynamicServerUsage)

\* the catch block rethrows the error of the lookup
Rethrows(lookup) == lookup.kind = "throw" /\ ~isOutsideRequestScope(lookup)

\* nonceString with the header of the descriptor never looked up
NonceStringIgnoresHeader(nonce, lookup) ==
    IF nonce.type = "string" THEN nonce.value ELSE Undef

\* nonceString of EnvScript: a literal string as it is, the header named by a
\* descriptor once headers() settled, undefined otherwise
NonceString(nonce, lookup) ==
    IF nonce.type = "object" THEN
        IF lookup.kind = "resolved" /\ lookup.hasGet THEN HeadersGet(lookup.headers, nonce.headerKey)
        ELSE Undef
    ELSE IF nonce.type = "string" THEN nonce.value
    ELSE Undef

\* the script EnvScript emits: window['__ENV'] = Object.freeze(<json>)
ScriptOf(envProp, nonceString) ==
    [target |-> "__ENV", freeze |-> TRUE, json |-> escapeJsonForHtml(envProp), nonce |-> nonceString]

\* the script run without Object.freeze
ExecuteScriptNoFreeze(a, st) ==
    LET obj == JSONParse(a.json) IN
    IF obj.ok THEN [set |-> TRUE, frozen |-> FALSE, props |-> obj.value] ELSE st

\* the value of window.__ENV after the page has run the script a (a script
\* whose text does not parse assigns nothing)
ExecuteScript(a, st) ==
    LET obj == JSONParse(a.json) IN
    IF obj.ok THEN [set |-> TRUE, frozen |-> a.freeze, props |-> obj.value] ELSE st

\* window.__ENV[key] = value by code of the page
AssignProperty(st, key, value) ==
    IF st.set /\ ~st.frozen THEN [st EXCEPT !.props = Put(st.props, key, value)] ELSE st

\* delete window.__ENV[key] by code of the page
DeleteProperty(st, key) ==
    IF st.set /\ ~st.frozen THEN [st EXCEPT !.props = [k \in (DOMAIN st.props) \ {key} |-> st.props[k]]] ELSE st

(* ---------------------------------------------------------------------- *)
(* The state machine: one server process and one page                      *)
(* ---------------------------------------------------------------------- *)

\* the values each key may have when the server process starts; F and
\* NEXT_PUBLIC_F may also be unset
InitVals(k) ==
    IF k = kF THEN {<<>>, <<"b">>}
    ELSE IF k = kLower THEN {<<"b">>}
    ELSE {<<>>, <<"<", "'">>}

\* the environments the server process starts with
InitEnvs ==
    {E \in MapsOver(InitKeys, EnvVals, Cardinality(InitKeys)) :
        kLower \in DOMAIN E /\ \A k \in DOMAIN E : E[k] \in InitVals(k)}

\* process.env as the bundle of the page sees it: build-time values
PageEnvs == {Put(Put(EmptyMap, kF, <<"p">>), Prefixed(kF), <<"p">>)}

\* the keys the hosting runtime writes
HostKeys == {Prefixed(kF)}

\* the values the hosting runtime writes
HostVals == {<<"b">>}

\* the properties code of the page tries to write
TamperKeys == {kF, Prefixed(kF)}

\* the value of EnvContext before a provider rendered
NoContext == [set |-> FALSE, value |-> EmptyMap]

\* no serializer run in progress
NotDecoded == [done |-> FALSE, result |-> ParseError]

InitMain ==
    /\ procEnv \in InitEnvs
    /\ pageEnv \in PageEnvs
    /\ store = NoStore
    /\ context = NoContext
    /\ scripts = <<>>
    /\ ran = 0
    /\ render = Idle
    /\ last = [op |-> "none"]
    /\ renders = 0
    /\ envWrites = 0

InitEscIdle ==
    /\ escIn = EmptyMap
    /\ escOut = <<>>
    /\ escDecoded = NotDecoded

Init == InitMain /\ InitEscIdle

\* makeEnvPublic(input) in the server process
MakeEnvPublic(input) ==
    /\ envWrites < MaxEnvWrites
    /\ LET r == makeEnvPublic(procEnv, input) IN
        /\ procEnv' = r.env
        /\ last' = [op |-> "makeEnvPublic", input |-> input, before |-> procEnv, log |-> r.log]
    /\ envWrites' = envWrites + 1
    /\ UNCHANGED <<pageEnv, store, context, scripts, ran, render, renders, escVars>>

\* process.env[key] = value by the hosting runtime
HostSetEnv(key, value) ==
    /\ envWrites < MaxEnvWrites
    /\ procEnv' = Put(procEnv, key, value)
    /\ envWrites' = envWrites + 1
    /\ last' = [op |-> "setEnv", key |-> key]
    /\ UNCHANGED <<pageEnv, store, context, scripts, ran, render, renders, escVars>>

\* delete process.env[key] by the hosting runtime
HostDeleteEnv(key) ==
    /\ envWrites < MaxEnvWrites
    /\ key \in DOMAIN procEnv
    /\ procEnv' = [k \in (DOMAIN procEnv) \ {key} |-> procEnv[k]]
    /\ envWrites' = envWrites + 1
    /\ last' = [op |-> "deleteEnv", key |-> key]
    /\ UNCHANGED <<pageEnv, store, context, scripts, ran, render, renders, escVars>>

\* PublicEnvScript is called and awaits connection()
PublicEnvScriptBegin(nonce) ==
    /\ render.pc = "idle"
    /\ renders' = renders + 1
    /\ render' = [Idle EXCEPT !.pc = "connection", !.kind = "PublicEnvScript", !.nonce = nonce]
    /\ last' = [op |-> "connection"]
    /\ UNCHANGED <<procEnv, pageEnv, store, context, scripts, ran, envWrites, escVars>>

\* connection() resolved in a PublicEnvScript that computes the public map at
\* the first render of the page and reuses it afterwards
PublicEnvScriptResumeCached ==
    /\ render.pc = "connection"
    /\ render.kind = "PublicEnvScript"
    /\ render' = [render EXCEPT !.pc = "envScript",
                                !.env = IF scripts = <<>> THEN getPublicEnv(procEnv)
                                        ELSE JSONParse(scripts[1].script.json).value,
                                !.src = procEnv]
    /\ last' = [op |-> "getPublicEnv"]
    /\ UNCHANGED <<procEnv, pageEnv, store, context, scripts, ran, renders, envWrites, escVars>>

\* connection() resolved: PublicEnvScript reads getPublicEnv() and returns <EnvScript env={publicEnv}>
PublicEnvScriptResume ==
    /\ render.pc = "connection"
    /\ render.kind = "PublicEnvScript"
    /\ render' = [render EXCEPT !.pc = "envScript", !.env = getPublicEnv(procEnv), !.src = procEnv]
    /\ last' = [op |-> "getPublicEnv"]
    /\ UNCHANGED <<procEnv, pageEnv, store, context, scripts, ran, renders, envWrites, escVars>>

\* PublicEnvProvider is called and awaits connection()
PublicEnvProviderBegin ==
    /\ render.pc = "idle"
    /\ renders' = renders + 1
    /\ render' = [Idle EXCEPT !.pc = "connection", !.kind = "PublicEnvProvider"]
    /\ last' = [op |-> "connection"]
    /\ UNCHANGED <<procEnv, pageEnv, store, context, scripts, ran, envWrites, escVars>>

\* connection() resolved: PublicEnvProvider provides getPublicEnv() as the context value
PublicEnvProviderResume ==
    /\ render.pc = "connection"
    /\ render.kind = "PublicEnvProvider"
    /\ context' = [set |-> TRUE, value |-> getPublicEnv(procEnv)]
    /\ render' = Idle
    /\ last' = [op |-> "PublicEnvProvider", src |-> procEnv]
    /\ UNCHANGED <<procEnv, pageEnv, store, scripts, ran, renders, envWrites, escVars>>

\* EnvScript is rendered by a caller with its own env property
EnvScriptBegin(envProp, nonce) ==
    /\ render.pc = "idle"
    /\ renders' = renders + 1
    /\ render' = [Idle EXCEPT !.pc = "envScript", !.kind = "EnvScript", !.env = envProp, !.nonce = nonce]
    /\ last' = [op |-> "EnvScriptBegin"]
    /\ UNCHANGED <<procEnv, pageEnv, store, context, scripts, ran, envWrites, escVars>>

\* EnvScript awaits headers() for a nonce descriptor: the lookup settles, and
\* an error that is not about the request scope is thrown to the caller
HeadersSettle(outcome) ==
    /\ render.pc = "envScript"
    /\ render.nonce.type = "object"
    /\ render.lookup.kind = "none"
    /\ IF Rethrows(outcome)
        THEN /\ render' = Idle
             /\ last' = [op |-> "EnvScript", emitted |-> FALSE, kind |-> render.kind, envProp |-> render.env,
                         src |-> render.src, nonceProp |-> render.nonce, lookup |-> outcome]
        ELSE /\ render' = [render EXCEPT !.lookup = outcome]
             /\ last' = [op |-> "headers"]
    /\ UNCHANGED <<procEnv, pageEnv, store, context, scripts, ran, renders, envWrites, escVars>>

\* the rest of an EnvScript that serializes, for PublicEnvScript, the public
\* entries process.env has when the script is emitted
EnvScriptRenderLive ==
    /\ render.pc = "envScript"
    /\ render.nonce.type = "object" => render.lookup.kind # "none"
    /\ scripts' = Append(scripts,
                         [script |-> ScriptOf(IF render.kind = "PublicEnvScript" THEN getPublicEnv(procEnv)
                                              ELSE render.env,
                                              NonceString(render.nonce, render.lookup)),
                          kind |-> render.kind, src |-> render.src])
    /\ last' = [op |-> "EnvScript", emitted |-> TRUE, kind |-> render.kind, envProp |-> render.env,
                src |-> render.src, nonceProp |-> render.nonce, lookup |-> render.lookup]
    /\ render' = Idle
    /\ UNCHANGED <<procEnv, pageEnv, store, context, ran, renders, envWrites, escVars>>

\* the rest of EnvScript: the script is emitted into the page (kind and src
\* remember which component rendered it and from which process.env)
EnvScriptRender ==
    /\ render.pc = "envScript"
    /\ render.nonce.type = "object" => render.lookup.kind # "none"
    /\ scripts' = Append(scripts, [script |-> ScriptOf(render.env, NonceString(render.nonce, render.lookup)),
                                    kind |-> render.kind, src |-> render.src])
    /\ last' = [op |-> "EnvScript", emitted |-> TRUE, kind |-> render.kind, envProp |-> render.env,
                src |-> render.src, nonceProp |-> render.nonce, lookup |-> render.lookup]
    /\ render' = Idle
    /\ UNCHANGED <<procEnv, pageEnv, store, context, ran, renders, envWrites, escVars>>

\* the page runs the next script it received
RunScript ==
    /\ ran < Len(scripts)
    /\ store' = ExecuteScript(scripts[ran + 1].script, store)
    /\ ran' = ran + 1
    /\ last' = [op |-> "script", before |-> store]
    /\ UNCHANGED <<procEnv, pageEnv, context, scripts, render, renders, envWrites, escVars>>

\* code of the page tries window.__ENV[key] = value
TamperAssign(key, value) ==
    /\ store.set
    /\ store' = AssignProperty(store, key, value)
    /\ last' = [op |-> "assign", key |-> key]
    /\ UNCHANGED <<procEnv, pageEnv, context, scripts, ran, render, renders, envWrites, escVars>>

\* code of the page tries delete window.__ENV[key]
TamperDelete(key) ==
    /\ store.set
    /\ store' = DeleteProperty(store, key)
    /\ last' = [op |-> "delete", key |-> key]
    /\ UNCHANGED <<procEnv, pageEnv, context, scripts, ran, render, renders, envWrites, escVars>>

\* env(key, d) is called in the context ctx
CallEnv(ctx, key, d) ==
    /\ last' = [op |-> "env", ctx |-> ctx, key |-> key, def |-> d,
                browser |-> isBrowser(ctx, store),
                out |-> env(ctx, store, procEnv, pageEnv, key, d)]
    /\ UNCHANGED <<procEnv, pageEnv, store, context, scripts, ran, render, renders, envWrites, escVars>>

\* requireEnv(key) is called in the context ctx
CallRequireEnv(ctx, key) ==
    /\ last' = [op |-> "requireEnv", ctx |-> ctx, key |-> key, def |-> Undef,
                browser |-> isBrowser(ctx, store),
                out |-> requireEnv(ctx, store, procEnv, pageEnv, key)]
    /\ UNCHANGED <<procEnv, pageEnv, store, context, scripts, ran, render, renders, envWrites, escVars>>

\* serverOnly(key, fallback) is called in the context ctx
CallServerOnly(ctx, key, fallback) ==
    /\ last' = [op |-> "serverOnly", ctx |-> ctx, key |-> key, def |-> fallback,
                browser |-> isBrowser(ctx, store),
                out |-> serverOnly(ctx, store, procEnv, pageEnv, key, fallback)]
    /\ UNCHANGED <<procEnv, pageEnv, store, context, scripts, ran, render, renders, envWrites, escVars>>

Next ==
    \/ \E input \in PromoteInputs : MakeEnvPublic(input)
    \/ \E key \in HostKeys, value \in HostVals : HostSetEnv(key, value)
    \/ \E key \in HostKeys : HostDeleteEnv(key)
    \/ (renders < MaxRenders /\ \E nonce \in NonceInputs : PublicEnvScriptBegin(nonce))
    \/ PublicEnvScriptResume
    \/ (renders < MaxRenders /\ PublicEnvProviderBegin)
    \/ PublicEnvProviderResume
    \/ (renders < MaxRenders /\ \E envProp \in CustomEnvs, nonce \in NonceInputs : EnvScriptBegin(envProp, nonce))
    \/ EnvScriptRender
    \/ RunScript
    \/ \E key \in TamperKeys : TamperAssign(key, <<"t">>)
    \/ \E key \in TamperKeys : TamperDelete(key)
    \/ \E ctx \in Contexts, key \in CallKeys, d \in Defaults : CallEnv(ctx, key, d)
    \/ \E ctx \in Contexts, key \in CallKeys : CallRequireEnv(ctx, key)
    \/ \E ctx \in Contexts, key \in CallKeys, d \in Defaults : CallServerOnly(ctx, key, d)

Spec == Init /\ [][Next]_vars

(* ---------------------------------------------------------------------- *)
(* The serializer alone, over enumerated objects                           *)
(* ---------------------------------------------------------------------- *)

\* the characters of the enumerated strings
EscAlphabet == {"<", ">", "&", "'", "\"", "\\", "u", "/", "a"}

\* longer strings: a literal backslash-u sequence, a closing script tag, a line break
TrickyStrings ==
    { <<"\\", "u", "0", "0", "3", "c">>,
      <<"<", "/", "s", "c", "r", "i", "p", "t", ">">>,
      <<"a", "\n", "'">> }

\* the keys of the serialized objects: a plain one and one of special characters
EscKeys == {<<"k">>, <<"<", "'", "&", ">", "\"", "\\">>}

\* the objects the serializer is applied to
EscInputs == MapsOver(EscKeys, StringsUpTo(EscAlphabet, MaxStrLen) \cup TrickyStrings, Cardinality(EscKeys))

InitEscape ==
    /\ procEnv = EmptyMap
    /\ pageEnv = EmptyMap
    /\ store = NoStore
    /\ context = NoContext
    /\ scripts = <<>>
    /\ ran = 0
    /\ render = Idle
    /\ last = [op |-> "none"]
    /\ renders = 0
    /\ envWrites = 0
    /\ escIn \in EscInputs
    /\ escOut = <<>>
    /\ escDecoded = NotDecoded

\* escapeJsonForHtml(escIn)
Escape ==
    /\ escOut = <<>>
    /\ escOut' = escapeJsonForHtml(escIn)
    /\ UNCHANGED <<mainVars, escIn, escDecoded>>

\* JSON.parse of the escaped text
Decode ==
    /\ escOut # <<>>
    /\ ~escDecoded.done
    /\ escDecoded' = [done |-> TRUE, result |-> JSONParse(escOut)]
    /\ UNCHANGED <<mainVars, escIn, escOut>>

NextEscape == Escape \/ Decode

SpecEscape == InitEscape /\ [][NextEscape]_vars

(* ---------------------------------------------------------------------- *)
(* The typed parsers alone, over enumerated values                         *)
(* ---------------------------------------------------------------------- *)

\* the values the parsed variable is set to
ParserVals ==
    {<<"t", "r", "u", "e">>,
     <<"T", "R", "U", "E">>,
     <<"T", "r", "u", "e">>,
     <<"1">>,
     <<"y", "e", "s">>,
     <<"Y", "E", "S">>,
     <<"o", "n">>,
     <<"O", "n">>,
     <<"f", "a", "l", "s", "e">>,
     <<"0">>,
     <<"n", "o">>,
     <<" ", "t", "r", "u", "e">>,
     <<"o", "f", "f">>,
     <<"3", "0", "0", "0">>,
     <<"3", ".", "1", "4">>,
     <<"-", "5">>,
     <<"a", "b", "c">>,
     <<>>,
     <<" ", "4", "2", " ">>,
     <<"I", "n", "f", "i", "n", "i", "t", "y">>,
     <<"-", "I", "n", "f", "i", "n", "i", "t", "y">>,
     <<"1", "e", "9", "9", "9">>,
     <<"0", "x", "1", "F">>,
     <<"1", "2", "a", "b", "c">>,
     <<".", "5">>,
     <<"1", "e", "3">>,
     <<"-", "0", ".", "5", "0">>,
     <<"N", "a", "N">>,
     <<"a", ",", "b">>,
     <<" ", "a", " ", ",", " ", ",", "b", ",", "a">>,
     <<",">>,
     <<"a">>,
     <<"a", ",", ",", "b", " ">>,
     <<"d", "e", "v">>,
     <<"p", "r", "o", "d">>,
     <<"D", "E", "V">>,
     <<"{", "\"", "k", "\"", ":", "[", "1", ",", "t", "r", "u", "e", ",", "n", "u", "l", "l", ",", "\"", "s", "\"", "]", "}">>,
     <<"{", "b", "a", "d">>,
     <<"[", "1", ",", " ", "2", "]">>,
     <<"\"", "s", "\"">>,
     <<"{", "\"", "a", "\"", ":", "{", "\"", "b", "\"", ":", "-", "1", ".", "5", "e", "2", "}", "}">>,
     <<"[", "1", ",", "]">>,
     <<"h", "t", "t", "p", "s", ":", "/", "/", "a", ".", "b">>,
     <<"h", "t", "t", "p", ":", "/", "/">>,
     <<"f", "o", "o", ":", "b", "a", "r">>,
     <<"h", "t", "t", "p", ":", "/", "/", "a", " ", "b">>,
     <<"a", ".", "b">>,
     <<"h", "t", "t", "p", ":", "/", "/", "a", ".", "b", ":", "8", "0", "/", "p", "?", "q", "#", "f">>}

\* process.env of the server: the variable unset, or set under the plain and
\* under the public key
ParserEnvs == {EmptyMap} \cup {Put(Put(EmptyMap, kF, v), Prefixed(kF), v) : v \in ParserVals}

\* the keys the parsers are called with
ParserKeys == {kF, Prefixed(kF)}

\* the defaults given to boolean, number, array, json and url
BooleanDefaults == {JSUndefined, Bool(TRUE)}

NumberDefaults == {JSUndefined, Num("finite", FALSE, 7, 0)}

ArrayDefaults == {JSUndefined, List(<< <<"d">> >>)}

JsonDefaults == {JSUndefined, Obj(Put(EmptyMap, <<"d">>, Bool(TRUE)))}

UrlDefaults == {JSUndefined, Str(<<"n", "o", " ", "u", "r", "l">>)}

\* the allowed values and the defaults given to enum: none, an allowed one
\* and one that is not allowed
AllowedValues == << <<"d", "e", "v">>, <<"p", "r", "o", "d">> >>

EnumDefaults == {JSUndefined, Str(<<"d", "e", "v">>), Str(<<"q", "a">>)}

\* the script PublicEnvScript emits for the environment E
PublicScript(E) ==
    [script |-> ScriptOf(getPublicEnv(E), Undef), kind |-> "PublicEnvScript", src |-> E]

\* a server process with the environment set, and a page that has not
\* received the script or has run it
InitParsers ==
    /\ procEnv \in ParserEnvs
    /\ pageEnv \in PageEnvs
    /\ \/ /\ scripts = <<>>
          /\ ran = 0
          /\ store = NoStore
          /\ renders = 0
       \/ /\ scripts = <<PublicScript(procEnv)>>
          /\ ran = 1
          /\ store = ExecuteScript(PublicScript(procEnv).script, NoStore)
          /\ renders = 1
    /\ context = NoContext
    /\ render = Idle
    /\ last = [op |-> "none"]
    /\ envWrites = 0
    /\ InitEscIdle

\* envParsers.boolean(key, d) is called in the context ctx
CallBoolean(ctx, key, d) ==
    /\ last' = [op |-> "boolean", ctx |-> ctx, key |-> key, def |-> d,
                browser |-> isBrowser(ctx, store),
                value |-> env(ctx, store, procEnv, pageEnv, key, Undef),
                out |-> boolean(ctx, store, procEnv, pageEnv, key, d)]
    /\ UNCHANGED <<procEnv, pageEnv, store, context, scripts, ran, render, renders, envWrites, escVars>>

\* envParsers.number(key, d) is called in the context ctx
CallNumber(ctx, key, d) ==
    /\ last' = [op |-> "number", ctx |-> ctx, key |-> key, def |-> d,
                browser |-> isBrowser(ctx, store),
                value |-> env(ctx, store, procEnv, pageEnv, key, Undef),
                out |-> number(ctx, store, procEnv, pageEnv, key, d)]
    /\ UNCHANGED <<procEnv, pageEnv, store, context, scripts, ran, render, renders, envWrites, escVars>>

\* envParsers.array(key, d) is called in the context ctx
CallArray(ctx, key, d) ==
    /\ last' = [op |-> "array", ctx |-> ctx, key |-> key, def |-> d,
                browser |-> isBrowser(ctx, store),
                value |-> env(ctx, store, procEnv, pageEnv, key, Undef),
                out |-> array(ctx, store, procEnv, pageEnv, key, d)]
    /\ UNCHANGED <<procEnv, pageEnv, store, context, scripts, ran, render, renders, envWrites, escVars>>

\* envParsers.json(key, d) is called in the context ctx
CallJson(ctx, key, d) ==
    /\ last' = [op |-> "json", ctx |-> ctx, key |-> key, def |-> d,
                browser |-> isBrowser(ctx, store),
                value |-> env(ctx, store, procEnv, pageEnv, key, Undef),
                out |-> json(ctx, store, procEnv, pageEnv, key, d)]
    /\ UNCHANGED <<procEnv, pageEnv, store, context, scripts, ran, render, renders, envWrites, escVars>>

\* envParsers.url(key, d) is called in the context ctx
CallUrl(ctx, key, d) ==
    /\ last' = [op |-> "url", ctx |-> ctx, key |-> key, def |-> d,
                browser |-> isBrowser(ctx, store),
                value |-> env(ctx, store, procEnv, pageEnv, key, Undef),
                out |-> url(ctx, store, procEnv, pageEnv, key, d)]
    /\ UNCHANGED <<procEnv, pageEnv, store, context, scripts, ran, render, renders, envWrites, escVars>>

\* envParsers.enum(key, allowed, d) is called in the context ctx
CallEnum(ctx, key, allowed, d) ==
    /\ last' = [op |-> "enum", ctx |-> ctx, key |-> key, def |-> d, allowed |-> allowed,
                browser |-> isBrowser(ctx, store),
                value |-> env(ctx, store, procEnv, pageEnv, key, Undef),
                out |-> enum(ctx, store, procEnv, pageEnv, key, allowed, d)]
    /\ UNCHANGED <<procEnv, pageEnv, store, context, scripts, ran, render, renders, envWrites, escVars>>

NextParsers ==
    \/ \E ctx \in Contexts, key \in ParserKeys, d \in BooleanDefaults : CallBoolean(ctx, key, d)
    \/ \E ctx \in Contexts, key \in ParserKeys, d \in NumberDefaults : CallNumber(ctx, key, d)
    \/ \E ctx \in Contexts, key \in ParserKeys, d \in ArrayDefaults : CallArray(ctx, key, d)
    \/ \E ctx \in Contexts, key \in ParserKeys, d \in JsonDefaults : CallJson(ctx, key, d)
    \/ \E ctx \in Contexts, key \in ParserKeys, d \in UrlDefaults : CallUrl(ctx, key, d)
    \/ \E ctx \in Contexts, key \in ParserKeys, d \in EnumDefaults : CallEnum(ctx, key, AllowedValues, d)
    \/ \E ctx \in Contexts, key \in ParserKeys : CallRequireEnv(ctx, key)

SpecParsers == InitParsers /\ [][NextParsers]_vars

(* ---------------------------------------------------------------------- *)
(* The transport alone: renders of one page with every kind of nonce       *)
(* ---------------------------------------------------------------------- *)

\* the nonce properties: none, a literal, a descriptor of a header that is
\* sent (its name in another case) and a descriptor of one that is not
NonceProps == {JSUndefined, Str(<<"n">>), HeaderKey(<<"X">>), HeaderKey(<<"y">>)}

\* the headers of the request
RequestHeaders == Put(EmptyMap, <<"x">>, <<"h">>)

\* the ways headers() settles: the headers of the request, a value without a
\* get method, the two errors Next.js throws outside a request, another
\* Error, and a thrown value that is no Error
HeaderOutcomes ==
    { HeadersResolved(TRUE, RequestHeaders),
      HeadersResolved(FALSE, EmptyMap),
      Thrown(TRUE, <<"h", "e", "a", "d", "e", "r", "s", " ">> \o WasCalledOutsideRequestScope \o <<".">>),
      Thrown(TRUE, DynamicServerUsage \o <<":", " ", "h">>),
      Thrown(TRUE, <<"b", "o", "o", "m">>),
      Thrown(FALSE, OutsideRequestScope) }

\* the argument makeEnvPublic is called with between the renders
TransportPromoteInputs == {[type |-> "string", value |-> kF]}

\* a server process whose environment holds F, not empty
InitTransport ==
    /\ InitMain
    /\ InitEscIdle
    /\ kF \in DOMAIN procEnv
    /\ procEnv[kF] # <<>>

NextTransport ==
    \/ \E input \in TransportPromoteInputs : MakeEnvPublic(input)
    \/ \E key \in HostKeys, value \in HostVals : HostSetEnv(key, value)
    \/ \E key \in HostKeys : HostDeleteEnv(key)
    \/ (renders < MaxPageRenders /\ \E nonce \in NonceProps : PublicEnvScriptBegin(nonce))
    \/ PublicEnvScriptResume
    \/ (renders < MaxPageRenders /\ PublicEnvProviderBegin)
    \/ PublicEnvProviderResume
    \/ (renders < MaxPageRenders /\ \E envProp \in CustomEnvs, nonce \in NonceProps : EnvScriptBegin(envProp, nonce))
    \/ \E outcome \in HeaderOutcomes : HeadersSettle(outcome)
    \/ EnvScriptRender
    \/ RunScript

SpecTransport == InitTransport /\ [][NextTransport]_vars

(* ---------------------------------------------------------------------- *)
(* The accessors and parsers between changes of process.env                *)
(* ---------------------------------------------------------------------- *)

\* the values the variable has and is given: a flag and number, a name of
\* the allowed values, and a URL
FreshVals == {<<"1">>, <<"d", "e", "v">>, <<"f", "o", "o", ":", "b", "a", "r">>}

\* process.env of the server: the variable unset, or set under both keys
FreshEnvs == {EmptyMap} \cup {Put(Put(EmptyMap, kF, v), Prefixed(kF), v) : v \in FreshVals}

\* a server process with the environment set, and a page that has not
\* received the script or has run it
InitFresh ==
    /\ procEnv \in FreshEnvs
    /\ pageEnv \in PageEnvs
    /\ \/ /\ scripts = <<>>
          /\ ran = 0
          /\ store = NoStore
          /\ renders = 0
       \/ /\ scripts = <<PublicScript(procEnv)>>
          /\ ran = 1
          /\ store = ExecuteScript(PublicScript(procEnv).script, NoStore)
          /\ renders = 1
    /\ context = NoContext
    /\ render = Idle
    /\ last = [op |-> "none"]
    /\ envWrites = 0
    /\ InitEscIdle

NextFresh ==
    \/ \E input \in TransportPromoteInputs : MakeEnvPublic(input)
    \/ \E key \in ParserKeys, value \in FreshVals : HostSetEnv(key, value)
    \/ \E key \in ParserKeys : HostDeleteEnv(key)
    \/ \E ctx \in Contexts, key \in ParserKeys, d \in Defaults : CallEnv(ctx, key, d)
    \/ \E ctx \in Contexts, key \in ParserKeys : CallRequireEnv(ctx, key)
    \/ \E ctx \in Contexts, key \in ParserKeys, d \in Defaults : CallServerOnly(ctx, key, d)
    \/ \E ctx \in Contexts, key \in ParserKeys, d \in BooleanDefaults : CallBoolean(ctx, key, d)
    \/ \E ctx \in Contexts, key \in ParserKeys, d \in NumberDefaults : CallNumber(ctx, key, d)
    \/ \E ctx \in Contexts, key \in ParserKeys, d \in ArrayDefaults : CallArray(ctx, key, d)
    \/ \E ctx \in Contexts, key \in ParserKeys, d \in JsonDefaults : CallJson(ctx, key, d)
    \/ \E ctx \in Contexts, key \in ParserKeys, d \in UrlDefaults : CallUrl(ctx, key, d)
    \/ \E ctx \in Contexts, key \in ParserKeys, d \in EnumDefaults : CallEnum(ctx, key, AllowedValues, d)

SpecFresh == InitFresh /\ [][NextFresh]_vars

(* ---------------------------------------------------------------------- *)
(* Properties                                                              *)
(* ---------------------------------------------------------------------- *)

\* the public-visibility rule: the key starts with the literal NEXT_PUBLIC_
VisibilityRule(k) == Len(k) >= 12 /\ SubSeq(k, 1, 12) = <<"N", "E", "X", "T", "_", "P", "U", "B", "L", "I", "C", "_">>

\* the entries of E whose key satisfies the rule
PublicEntries(E) == [k \in {x \in DOMAIN E : VisibilityRule(x)} |-> E[k]]

\* the environments that agree with E on every public entry and hold any
\* other values under the keys that are not public
NonPublicVariants(E) ==
    {[k \in (DOMAIN PublicEntries(E)) \cup (DOMAIN N) |-> IF k \in DOMAIN N THEN N[k] ELSE E[k]] :
        N \in MapsOver({kF, kLower}, EnvVals, 2)}

\* the script the page ran last
Injected == scripts[ran]

\* the value the accessor of the last call resolved: the store's in the
\* browser, the process environment's otherwise
Resolved ==
    IF last.browser THEN Get(store.props, last.key)
    ELSE IF last.ctx = "server" THEN Get(procEnv, last.key)
    ELSE Get(pageEnv, last.key)

\* C1: the script PublicEnvScript emits and the context value PublicEnvProvider
\* provides carry exactly the NEXT_PUBLIC_ entries of process.env, and the
\* emitted text is the same for every environment with the same public entries
C1_OnlyPublicEntriesEmitted ==
    /\ (last.op = "EnvScript" /\ last.kind = "PublicEnvScript") =>
        LET payload == scripts[Len(scripts)].script.json
            decoded == JSONParse(payload) IN
        /\ decoded.ok
        /\ decoded.value = PublicEntries(last.src)
        /\ \A E2 \in NonPublicVariants(last.src) : escapeJsonForHtml(getPublicEnv(E2)) = payload
    /\ last.op = "PublicEnvProvider" =>
        /\ context.value = PublicEntries(last.src)
        /\ \A E2 \in NonPublicVariants(last.src) : getPublicEnv(E2) = context.value

C1_Witness ==
    /\ last.op = "EnvScript"
    /\ last.kind = "PublicEnvScript"
    /\ Get(last.src, kF) = <<"b">>
    /\ Get(last.src, Prefixed(kF)) = <<"<", "'">>
    /\ kLower \in DOMAIN last.src
    /\ DOMAIN JSONParse(scripts[Len(scripts)].script.json).value = {Prefixed(kF)}

\* C2: a key of process.env is in the filtered map iff it satisfies the
\* rule, and env(k) in the browser raises AccessDenied iff k does not
C2_VisibilitySymmetry ==
    /\ \A k \in DOMAIN procEnv : (k \in DOMAIN getPublicEnv(procEnv)) <=> VisibilityRule(k)
    /\ (last.op = "env" /\ last.browser) =>
        /\ (last.out.kind = "throw") <=> ~VisibilityRule(last.key)
        /\ last.out.kind = "throw" => last.out.err = "AccessDenied"
        /\ last.key \in DOMAIN procEnv =>
            ((last.key \in DOMAIN getPublicEnv(procEnv)) <=> last.out.kind = "return")

C2_Witness ==
    /\ last.op = "env"
    /\ last.browser
    /\ last.key = kLower
    /\ kLower \in DOMAIN procEnv
    /\ last.out.err = "AccessDenied"

\* C3: once the page ran the script PublicEnvScript rendered from the
\* environment E, env(k) in the page returns E[k] for a public k (undefined
\* when E has none) and raises AccessDenied for any other k, and env(k) in
\* the server process returns the process environment's value for every k
C3_RoundTrip ==
    (last.op = "env" /\ last.def = Undef /\ ran > 0 /\ Injected.kind = "PublicEnvScript") =>
        IF last.ctx = "page" THEN
            IF VisibilityRule(last.key) THEN last.out = Return(Get(Injected.src, last.key))
            ELSE last.out = Throw("AccessDenied", last.key)
        ELSE last.out = Return(Get(procEnv, last.key))

C3_Witness ==
    /\ last.op = "env"
    /\ last.ctx = "page"
    /\ ran > 0
    /\ Injected.kind = "PublicEnvScript"
    /\ last.key = Prefixed(kF)
    /\ Get(Injected.src, kF) = <<"b">>
    /\ last.out = Return(<<"<", "'">>)

\* C4: the text escapeJsonForHtml returns contains none of the characters
\* < > & ' whatever the keys and values are, and a text is always returned
C4_NoRawMarkupCharacter ==
    escOut # <<>> =>
        /\ \A i \in 1..Len(escOut) : escOut[i] \notin {"<", ">", "&", "'"}
        /\ escOut[1] = "{"
        /\ escOut[Len(escOut)] = "}"

C4_Witness ==
    /\ escOut # <<>>
    /\ Get(escIn, <<"k">>) = <<"<", "/", "s", "c", "r", "i", "p", "t", ">">>
    /\ Get(escIn, <<"<", "'", "&", ">", "\"", "\\">>) = <<"a", "\n", "'">>

\* C5: decoding the text escapeJsonForHtml returns as JSON gives back the
\* object it was given, key for key and value for value
C5_EscapingLossless == escDecoded.done => escDecoded.result = Parsed(escIn)

C5_Witness ==
    /\ escDecoded.done
    /\ Get(escIn, <<"k">>) = <<"\\", "u", "0", "0", "3", "c">>
    /\ Get(escIn, <<"<", "'", "&", ">", "\"", "\\">>) = <<"<", "/", "s", "c", "r", "i", "p", "t", ">">>

C7_EmptyStringIsDefined ==
    /\ (last.op = "env" /\ last.out.kind = "return") =>
        /\ Resolved = Undef => last.out.val = last.def
        /\ Resolved # Undef => last.out.val = Resolved
    /\ last.op = "requireEnv" =>
        LET denied == last.browser /\ ~VisibilityRule(last.key) IN
        /\ (last.out = Throw("MissingRequired", last.key)) <=> (~denied /\ Resolved = Undef)
        /\ (~denied /\ Resolved # Undef) => last.out = Return(Resolved)

C7_Witness ==
    /\ last.op = "env"
    /\ last.browser
    /\ last.def = <<"D">>
    /\ Prefixed(kF) \in DOMAIN store.props
    /\ last.key = Prefixed(kF)
    /\ last.out = Return(<<>>)

C9_ServerOnlyFallbackInBrowser ==
    last.op = "serverOnly" =>
        IF last.ctx = "page" THEN last.out = Return(last.def)
        ELSE last.out = Return(IF last.key \in DOMAIN procEnv THEN procEnv[last.key] ELSE last.def)

C9_Witness ==
    /\ last.op = "serverOnly"
    /\ last.ctx = "page"
    /\ last.key = Prefixed(kF)
    /\ Get(store.props, Prefixed(kF)) = <<"<", "'">>
    /\ Get(pageEnv, Prefixed(kF)) = <<"p">>
    /\ last.out = Return(Undef)

\* the keys a makeEnvPublic call was given
PromotedKeys(input) ==
    IF input.type = "string" THEN {input.value} ELSE {input.value[i] : i \in 1..Len(input.value)}

\* C10: after makeEnvPublic(K) for a key K that is set in process.env,
\* whatever its value, and is not public, process.env['NEXT_PUBLIC_' + K]
\* equals process.env[K] and the entry of K is unchanged
C10_PromotionCopiesEveryPresentKey ==
    last.op = "makeEnvPublic" =>
        \A K \in PromotedKeys(last.input) :
            (K \in DOMAIN last.before /\ ~VisibilityRule(K)) =>
                /\ Get(procEnv, Prefixed(K)) = last.before[K]
                /\ Get(procEnv, K) = last.before[K]

\* C11: makeEnvPublic(K) for a key K that already starts with NEXT_PUBLIC_
\* emits a warn-level diagnostic and leaves process.env exactly as it was
C11_AlreadyPublicKeyIsSkipped ==
    (last.op = "makeEnvPublic" /\ last.input.type = "string") =>
        (VisibilityRule(last.input.value) =>
            /\ procEnv = last.before
            /\ \E i \in 1..Len(last.log) : last.log[i].level = "warn")

\* C12: a second makeEnvPublic(L) right after the first leaves process.env
\* as the first call left it, for every environment and every key list L
C12_PromotionIdempotent ==
    last.op = "makeEnvPublic" => makeEnvPublic(procEnv, last.input).env = procEnv

\* the last call was a typed parser whose key resolved to undefined
KeyResolvedUndefined == last.value.kind = "return" /\ last.value.val = Undef

\* the last call was a typed parser whose key resolved to a string
KeyResolvedPresent == last.value.kind = "return" /\ last.value.val # Undef

\* the last call returned the value v
Returned(v) == last.out.kind = "return" /\ last.out.val = v

\* the last call threw an Error of kind e that names the key of the call
Raised(e) == last.out.kind = "throw" /\ last.out.err = e /\ last.out.key = last.key

C14_NumberRejectsNonFinite ==
    (last.op = "number" /\ KeyResolvedPresent) =>
        IF NumberIsFinite(Number(last.value.val)) THEN Returned(Number(last.value.val))
        ELSE Raised("NotANumber") /\ last.out.raw = last.value.val

\* C15 as stated: whenever enum returns, the returned value is a member of
\* allowedValues
C15_EnumAlwaysReturnsAllowed ==
    (last.op = "enum" /\ last.out.kind = "return") => Includes(last.allowed, last.out.val.value)

\* C15: for a present value enum returns that value if it is a member of
\* allowedValues and otherwise raises InvalidEnumValue with the raw value and
\* every allowed value; for an absent value a supplied default is returned as
\* it is, member of allowedValues or not
C15_EnumMembershipOfPresentValue ==
    last.op = "enum" =>
        /\ KeyResolvedPresent =>
            IF \E i \in 1..Len(last.allowed) : last.allowed[i] = last.value.val
                THEN Returned(Str(last.value.val))
            ELSE /\ Raised("InvalidEnumValue")
                 /\ last.out.raw = last.value.val
                 /\ last.out.expected = last.allowed
        /\ (KeyResolvedUndefined /\ last.def.type # "undefined") => Returned(last.def)

C15_Witness ==
    /\ last.op = "enum"
    /\ last.ctx = "page"
    /\ last.browser
    /\ last.key = Prefixed(kF)
    /\ last.value.val = <<"p", "r", "o", "d">>
    /\ last.def = Str(<<"q", "a">>)
    /\ Returned(Str(<<"p", "r", "o", "d">>))

\* the positions that bound the comma-separated segments of v
SegmentBounds(v) == {0, Len(v) + 1} \cup {i \in 1..Len(v) : v[i] = ","}

\* the segment of v that begins after the bound b
SegmentAfter(v, b) ==
    LET e == CHOOSE x \in SegmentBounds(v) : x > b /\ \A y \in SegmentBounds(v) : y > b => x <= y
    IN  SubSeq(v, b + 1, e - 1)

\* s without the white space around it
Trimmed(s) ==
    LET I == {i \in 1..Len(s) : s[i] \notin {" ", "\t", "\n", "\r"}} IN
    IF I = {} THEN <<>>
    ELSE SubSeq(s, CHOOSE i \in I : \A j \in I : i <= j, CHOOSE i \in I : \A j \in I : j <= i)

\* the bounds after which a segment begins that is not empty once trimmed
KeptBounds(v) == {b \in SegmentBounds(v) \ {Len(v) + 1} : Trimmed(SegmentAfter(v, b)) # <<>>}

\* the trimmed non-empty segments of v in their order
Segments(v) ==
    [j \in 1..Cardinality(KeptBounds(v)) |->
        Trimmed(SegmentAfter(v, CHOOSE b \in KeptBounds(v) : Cardinality({x \in KeptBounds(v) : x < b}) = j - 1))]

\* C16: for every present value array returns its comma-separated segments,
\* each trimmed, the empty ones dropped, order and duplicates kept; a present
\* empty string yields [] and not the default
C16_ArraySegments ==
    (last.op = "array" /\ KeyResolvedPresent) =>
        /\ last.out.kind = "return"
        /\ last.out.val.type = "array"
        /\ Len(last.out.val.items) = Len(Segments(last.value.val))
        /\ \A j \in 1..Len(last.out.val.items) : last.out.val.items[j] = Segments(last.value.val)[j]
        /\ last.value.val = <<>> => last.out.val.items = <<>>

C16_Witness ==
    /\ last.op = "array"
    /\ last.value.kind = "return"
    /\ last.value.val = <<" ", "a", " ", ",", " ", ",", "b", ",", "a">>
    /\ last.def = List(<< <<"d">> >>)
    /\ Returned(List(<< <<"a">>, <<"b">>, <<"a">> >>))

\* C17: for every present value boolean returns true if and only if the
\* lower-cased value is one of 'true', '1', 'yes', 'on', whatever the default
C17_BooleanTruthyTokens ==
    (last.op = "boolean" /\ KeyResolvedPresent) =>
        Returned(Bool(ToLowerCase(last.value.val) \in
            {<<"t", "r", "u", "e">>, <<"1">>, <<"y", "e", "s">>, <<"o", "n">>}))

C17_Witness ==
    /\ last.op = "boolean"
    /\ last.value.kind = "return"
    /\ last.value.val = <<"Y", "E", "S">>
    /\ last.def.type = "undefined"
    /\ Returned(Bool(TRUE))

OutsideRequestError ==
    Thrown(TRUE, <<"h", "e", "a", "d", "e", "r", "s", " ">> \o WasCalledOutsideRequestScope \o <<".">>)

C20_StoreAssignedOnce ==
    (last.op = "script" /\ last.before.set) => store = last.before

\* C21: every key held in window.__ENV starts with NEXT_PUBLIC_, whichever
\* component emitted the script that created it, so env reads every injected
\* key in the page without AccessDenied
C21_StoredKeysAreVisible ==
    /\ store.set => \A k \in DOMAIN store.props : VisibilityRule(k)
    /\ (last.op = "env" /\ last.browser /\ last.key \in DOMAIN store.props) => last.out.kind = "return"

\* process.env[key] as the last call's context sees it
ProcessEnvRead == Get(ProcessEnv(last.ctx, procEnv, pageEnv), last.key)

\* C22: env, requireEnv and serverOnly agree on the boundary at every call:
\* where window.__ENV exists env and requireEnv apply the visibility gate and
\* serverOnly returns its fallback; where it does not exist (the server, and
\* the page before the script ran) all three read the process environment
C22_AccessorsAgreeOnBoundary ==
    /\ last.op = "env" =>
        IF last.browser THEN (last.out.kind = "throw" <=> ~VisibilityRule(last.key))
        ELSE last.out = Return(Nullish(ProcessEnvRead, last.def))
    /\ last.op = "requireEnv" =>
        IF last.browser THEN (~VisibilityRule(last.key) => last.out = Throw("AccessDenied", last.key))
        ELSE last.out = IF ProcessEnvRead = Undef THEN Throw("MissingRequired", last.key)
                        ELSE Return(ProcessEnvRead)
    /\ last.op = "serverOnly" =>
        IF last.browser THEN last.out = Return(last.def)
        ELSE last.out = Return(Nullish(ProcessEnvRead, last.def))

\* the typed parsers
ParserOps == {"boolean", "number", "array", "json", "url", "enum"}

OtherProcessEnvs == InitEnvs \cup {EmptyMap, Put(procEnv, Prefixed(kF), <<"o">>)}

OtherPageEnvs == PageEnvs \cup {EmptyMap, Put(pageEnv, Prefixed(kF), <<"o">>)}

\* C24: in the page with window.__ENV, env(k, d) for a key k that starts with
\* NEXT_PUBLIC_ returns the store's value for k, or d when the store has no
\* entry for k, and the same result whatever the process environment holds
C24_BrowserReadDependsOnStoreOnly ==
    (last.op = "env" /\ last.browser /\ VisibilityRule(last.key)) =>
        /\ last.out = Return(IF last.key \in DOMAIN store.props THEN store.props[last.key] ELSE last.def)
        /\ \A pe \in OtherProcessEnvs, ge \in OtherPageEnvs :
            env(last.ctx, store, pe, ge, last.key, last.def) = last.out

C24_Witness ==
    /\ last.op = "env"
    /\ last.browser
    /\ last.key = Prefixed(kF)
    /\ last.def = <<"D">>
    /\ Get(store.props, Prefixed(kF)) = <<>>
    /\ Get(procEnv, Prefixed(kF)) = <<"b">>
    /\ Get(pageEnv, Prefixed(kF)) = <<"p">>
    /\ last.out = Return(<<>>)

\* the environment that holds nothing but the entry the last call asked
\* for, as process.env has it now
EntryNow ==
    IF last.key \in DOMAIN procEnv THEN Put(EmptyMap, last.key, procEnv[last.key]) ELSE EmptyMap

\* the outcome of the call named op on the server, for the environment E
\* and the arguments of the last call
OutcomeOn(E) ==
    CASE last.op = "env" -> Return(Nullish(Get(E, last.key), last.def))
      [] last.op = "requireEnv" ->
            IF Get(E, last.key) = Undef THEN Throw("MissingRequired", last.key) ELSE Return(Get(E, last.key))
      [] last.op = "serverOnly" -> Return(Nullish(Get(E, last.key), last.def))
      [] last.op = "boolean" -> boolean("server", NoStore, E, EmptyMap, last.key, last.def)
      [] last.op = "number" -> number("server", NoStore, E, EmptyMap, last.key, last.def)
      [] last.op = "array" -> array("server", NoStore, E, EmptyMap, last.key, last.def)
      [] last.op = "json" -> json("server", NoStore, E, EmptyMap, last.key, last.def)
      [] last.op = "url" -> url("server", NoStore, E, EmptyMap, last.key, last.def)
      [] last.op = "enum" -> enum("server", NoStore, E, EmptyMap, last.key, last.allowed, last.def)

\* C25: on the server every call of env, requireEnv, serverOnly and the typed
\* parsers gives the outcome that the entry of its key in process.env at the
\* moment of the call and its own arguments give, whatever was called,
\* rendered or held in process.env before
C25_NoCachedResult ==
    (last.op \in ParserOps \cup {"env", "requireEnv", "serverOnly"} /\ last.ctx = "server") =>
        last.out = OutcomeOn(EntryNow)

C25_Witness ==
    /\ last.op = "number"
    /\ last.ctx = "server"
    /\ last.key = Prefixed(kF)
    /\ envWrites > 0
    /\ Get(store.props, Prefixed(kF)) = <<"d", "e", "v">>
    /\ Get(procEnv, Prefixed(kF)) = <<"1">>
    /\ Returned(Num("finite", FALSE, 1, 0))

\* the object the text of an emitted script decodes to
DecodedEnv(a) == JSONParse(a.script.json).value

\* C26: at every render of PublicEnvScript and of PublicEnvProvider the
\* public map is computed from process.env as it is when connection() has
\* resolved in that render: the artifact holds exactly the NEXT_PUBLIC_
\* entries of that environment, whatever an earlier render of the page held
C26_PublicMapRecomputedAtEveryRender ==
    /\ last.op = "getPublicEnv" => (render.src = procEnv /\ render.env = PublicEntries(procEnv))
    /\ last.op = "PublicEnvProvider" => context.value = PublicEntries(procEnv)
    /\ (last.op = "EnvScript" /\ last.emitted /\ last.kind = "PublicEnvScript") =>
        DecodedEnv(scripts[Len(scripts)]) = PublicEntries(last.src)

C26_Witness ==
    /\ last.op = "getPublicEnv"
    /\ renders = 2
    /\ Len(scripts) = 1
    /\ scripts[1].kind = "PublicEnvScript"
    /\ Prefixed(kF) \notin DOMAIN DecodedEnv(scripts[1])
    /\ Get(render.env, Prefixed(kF)) = <<"b">>

\* the keys of a makeEnvPublic call in the order they were passed
PassedKeys(input) == IF input.type = "string" THEN <<input.value>> ELSE input.value

\* the diagnostics that close the processing of one key: skipped or prefixed
Outcomes(log) == SelectSeq(log, LAMBDA d : d.what \in {"skipped", "prefixed"})

\* C27: makeEnvPublic returns for every input; a key that is not in
\* process.env gets a warn-level diagnostic and changes nothing, every key of
\* an array is processed, in the order passed, also after a skipped one, and
\* the only entries that differ afterwards are named NEXT_PUBLIC_ + K for a
\* key K that was passed
C27_PromotionNeverFailsAndFrame ==
    last.op = "makeEnvPublic" =>
        LET keys == PassedKeys(last.input)
            done == Outcomes(last.log) IN
        /\ Len(done) = Len(keys)
        /\ \A i \in 1..Len(keys) :
            /\ done[i].key = keys[i]
            /\ keys[i] \notin DOMAIN last.before =>
                /\ done[i] = Diag("warn", "skipped", keys[i])
                /\ Get(procEnv, Prefixed(keys[i])) = Get(last.before, Prefixed(keys[i]))
            /\ done[i].what = "prefixed" => Prefixed(keys[i]) \in DOMAIN procEnv
        /\ \A k \in (DOMAIN procEnv) \cup (DOMAIN last.before) :
            Get(procEnv, k) # Get(last.before, k) => \E i \in 1..Len(keys) : k = Prefixed(keys[i])
        /\ (\A i \in 1..Len(keys) : keys[i] \notin DOMAIN last.before) => procEnv = last.before

C27_Witness ==
    /\ last.op = "makeEnvPublic"
    /\ last.input.type = "array"
    /\ Get(last.before, kF) = <<"b">>
    /\ Get(last.before, Prefixed(kF)) = <<"<", "'">>
    /\ last.log[1] = Diag("warn", "skipped", <<"M">>)
    /\ Get(procEnv, Prefixed(kF)) = <<"b">>
    /\ Get(procEnv, Prefixed(Prefixed(kF))) = <<"<", "'">>
    /\ <<"M">> \notin DOMAIN procEnv
    /\ Prefixed(<<"M">>) \notin DOMAIN procEnv

\* the lookup failed because headers() was used where no request is in
\* scope: an Error of Next.js that says so
ScopeFailure(l) ==
    /\ l.kind = "throw"
    /\ l.isError
    /\ \/ StringIncludes(l.message, OutsideRequestScope)
       \/ StringIncludes(l.message, DynamicServerUsage)

\* the lookup failed in another way
OtherFailure(l) == l.kind = "throw" /\ ~ScopeFailure(l)

\* C28: when EnvScript has a { headerKey } nonce and the lookup of the
\* header fails in another way than outside a request scope, the render ends
\* with that same error and no script is emitted: no emitted script comes
\* from such a lookup
C28_OtherLookupFailuresPropagate ==
    /\ [](last.op = "EnvScript" => (last.emitted <=> ~OtherFailure(last.lookup)))
    /\ [][\A o \in HeaderOutcomes :
            (HeadersSettle(o) /\ OtherFailure(o)) =>
                /\ scripts' = scripts
                /\ render' = Idle
                /\ last'.op = "EnvScript"
                /\ ~last'.emitted
                /\ last'.lookup = o]_vars

C28_Witness ==
    /\ last.op = "EnvScript"
    /\ ~last.emitted
    /\ last.nonceProp = HeaderKey(<<"X">>)
    /\ last.lookup = Thrown(TRUE, <<"b", "o", "o", "m">>)
    /\ scripts = <<>>
    /\ render = Idle

\* C29: makeEnvPublic(K) for a key K that is not public and is set to a
\* value that is not empty, while NEXT_PUBLIC_ + K is set to another value,
\* overwrites that entry: afterwards it equals process.env[K], which is
\* unchanged
C29_PromotionOverwritesPublicEntry ==
    last.op = "makeEnvPublic" =>
        \A K \in PromotedKeys(last.input) :
            (/\ ~VisibilityRule(K)
             /\ K \in DOMAIN last.before
             /\ last.before[K] # <<>>
             /\ Prefixed(K) \in DOMAIN last.before
             /\ last.before[Prefixed(K)] # last.before[K]) =>
                /\ Get(procEnv, Prefixed(K)) = last.before[K]
                /\ Get(procEnv, K) = last.before[K]
                /\ Get(procEnv, Prefixed(K)) # last.before[Prefixed(K)]

C29_Witness ==
    /\ last.op = "makeEnvPublic"
    /\ last.input = [type |-> "string", value |-> kF]
    /\ Get(last.before, kF) = <<"b">>
    /\ Get(last.before, Prefixed(kF)) = <<"<", "'">>
    /\ Get(procEnv, Prefixed(kF)) = <<"b">>
    /\ Get(procEnv, kF) = <<"b">>

\* a render of PublicEnvScript is between two of its steps
InPublicEnvScript(pc) == render.kind = "PublicEnvScript" /\ render.pc = pc

\* C30: PublicEnvScript takes the public map when connection() has resolved,
\* from process.env as it is then; while EnvScript awaits the headers and
\* until it emits the script the map stays as taken, whatever is written to
\* process.env meanwhile; the emitted text decodes to that one map
C30_SnapshotAfterConnectionBeforeLookup ==
    /\ [][(InPublicEnvScript("connection") /\ render'.pc = "envScript") =>
            (render'.env = PublicEntries(procEnv) /\ render'.src = procEnv)]_vars
    /\ [][(InPublicEnvScript("connection") /\ render'.pc = "connection") =>
            render'.env = EmptyMap]_vars
    /\ [][(InPublicEnvScript("envScript") /\ render'.pc = "envScript") =>
            (render'.env = render.env /\ render'.src = render.src)]_vars
    /\ [][(InPublicEnvScript("envScript") /\ Len(scripts') > Len(scripts)) =>
            (DecodedEnv(scripts'[Len(scripts')]) = render.env /\ render.env = PublicEntries(render.src))]_vars

C30_Witness ==
    /\ last.op = "EnvScript"
    /\ last.emitted
    /\ last.kind = "PublicEnvScript"
    /\ last.nonceProp = HeaderKey(<<"X">>)
    /\ scripts[Len(scripts)].script.nonce = <<"h">>
    /\ envWrites = 1
    /\ Prefixed(kF) \notin DOMAIN procEnv
    /\ Get(DecodedEnv(scripts[Len(scripts)]), Prefixed(kF)) = <<"<", "'">>
    /\ last.src # procEnv

====
